---- MODULE Spec2Model ----
(***************************************************************************)
(* VectorRepository (src/repositories/vector.py): a pickle file of         *)
(* embeddings and a JSON file of metadata, an asyncio.Lock around the      *)
(* mutating calls, and an in-memory cache of the two loaded lists.         *)
(*                                                                         *)
(* Tasks are asyncio tasks of one event loop.  A step of the model is      *)
(* either the code a task runs between two suspensions (atomic, as the     *)
(* loop is single-threaded), or the file operation an executor thread      *)
(* performs for a suspended task (run_in_executor).                        *)
(***************************************************************************)
EXTENDS Integers, Sequences, FiniteSets, TLC

VARIABLES
    vecFile,      \* the pickle file:   [st, rows]
    metaFile,     \* the metadata file: [st, rows]
    lock,         \* self._lock: the task holding it, or NoTask
    cache,        \* self._cache: [set, v, m]; set = FALSE is None
    cacheDirty,   \* self._cache_dirty
    op,           \* per task: the method it is running, or "idle"
    arg,          \* per task: the call's argument
    pc,           \* per task: where the call is suspended
    lv,           \* per task: the local list `vectors`
    lm,           \* per task: the local list `metadata`
    ret,          \* per task: what its last call returned
    prev,         \* per task: the call it made before the current one
    held,         \* history: the store when the lock was last acquired
    saved,        \* history: entities whose save / save_batch has returned
    persisted,    \* history: the file contents each completed write left
    failed,       \* history: some call has raised
    opsLeft,      \* calls that may still be issued
    modelDir,     \* the directory at model_path: "missing", "broken", "ok"
    MODEL,        \* vector_search._MODEL: "None" or "loaded"
    vectorPkl,    \* the file at vector_pkl: [st, items]
    sCall,        \* the last search call: function and arguments
    sRet,         \* what that call returned
    sLog,         \* what that call touched, in order
    sFailed,      \* history: a search_bills call failed to load the model
    doc,          \* the pages of the PDF being processed
    chunk_size_tokens,
    overlap_tokens,
    full_text_tokens,
    page_map,
    start_token,
    doc_chunk_index,
    doc_chunks_data,
    cpc,          \* where makeembeddings is in the processing of the PDF
    windows,      \* history: the windows the chunk loop has visited
    refFile,      \* the references file: [st, refs]
    refLock,      \* BillReferenceRepository._lock: its holder, or NoTask
    refPc,        \* per task: where its get_next_reference is suspended
    refArg,       \* per task: the bill type it asked for
    refRefs,      \* per task: the local dict `refs`
    refNext,      \* per task: the local `next_ref`
    refReturned,  \* history: per bill type, the numbers returned, in order
    refInit,      \* history: the references file at the start
    refLeft       \* get_next_reference calls that may still be issued

\* The state of the search functions (vector_search.py, geminitools.py).
searchVars == <<modelDir, MODEL, vectorPkl, sCall, sRet, sLog, sFailed>>

\* The state of the chunking script (makeembeddings.py).
chunkVars == <<doc, chunk_size_tokens, overlap_tokens, full_text_tokens,
               page_map, start_token, doc_chunk_index, doc_chunks_data, cpc,
               windows>>

\* The state of the reference repository (repositories/bill_reference.py).
refVars == <<refFile, refLock, refPc, refArg, refRefs, refNext, refReturned,
             refInit, refLeft>>

\* The state of the repository (repositories/vector.py) and its callers.
repoVars == <<vecFile, metaFile, lock, cache, cacheDirty, op, arg, pc, lv, lm,
              ret, prev, held, saved, persisted, failed, opsLeft>>

vars == <<vecFile, metaFile, lock, cache, cacheDirty, op, arg, pc, lv, lm,
          ret, prev, held, saved, persisted, failed, opsLeft, searchVars, chunkVars, refVars>>

----------------------------------------------------------------------------
(* Bounds *)

\* Calls issued in one run of each specification.
MaxCalls == 3
MaxAppendCalls == 3
MaxSeqCalls == 3
MaxLoadCalls == 2

\* Chunks a stubbed search hands to the reconstruction.
MaxChunks == 3

\* Pages of a PDF, tokens of a page, and the largest window.
MaxPages == 2
MaxPageTokens == 2
MaxWindow == 2

\* get_next_reference calls issued in one run.
MaxRefCalls == 3

\* Records in a searched store, and the largest k asked for.
MaxStore == 3
MaxTopK == 3

Tasks == {"t1", "t2"}
NoTask == "none"

----------------------------------------------------------------------------
(* Values *)

Min(S) == CHOOSE x \in S : \A y \in S : x <= y

Max(S) == CHOOSE x \in S : \A y \in S : x >= y

Range(s) == {s[i] : i \in 1..Len(s)}

\* Python values held in an entity's metadata dict (Dict[str, any]).
PyList(s) == [kind |-> "list", val |-> s]

\* datetime values and datetime.isoformat(): the fractional part is
\* printed only when the microseconds are not zero.
IsoFormat(d) == IF d.usec = 0 THEN <<d.sec>> ELSE <<d.sec, d.usec>>

\* datetime.fromisoformat()
FromIsoFormat(s) == [sec |-> s[1], usec |-> IF Len(s) > 1 THEN s[2] ELSE 0]

\* str.startswith, with strings as sequences of characters
StartsWith(s, prefix) ==
    /\ Len(prefix) <= Len(s)
    /\ SubSeq(s, 1, Len(prefix)) = prefix

\* The VectorEmbedding values the callers pass to save and save_batch.
EntA1 == [text |-> "a1", embedding |-> <<1, 0>>, source |-> <<"a">>,
          metadata |-> {},
          created_at |-> [sec |-> 1, usec |-> 0]]
EntA2 == [text |-> "a2", embedding |-> <<0, 1>>, source |-> <<"a">>,
          metadata |-> {[key |-> "pages", value |-> PyList(<<1, 2>>)]},
          created_at |-> [sec |-> 2, usec |-> 7]]
EntAB == [text |-> "ab", embedding |-> <<1>>, source |-> <<"a", "b">>,
          metadata |-> {[key |-> "pages", value |-> PyList(<<3>>)]},
          created_at |-> [sec |-> 3, usec |-> 0]]
EntB == [text |-> "b1", embedding |-> <<1, 1>>, source |-> <<"b">>,
         metadata |-> {},
         created_at |-> [sec |-> 4, usec |-> 5]]

\* EntB is in the store some runs start with; the others are saved.
Entities == {EntA1, EntA2, EntAB}
Batches == {<<>>, <<EntA2, EntAB>>}
Sources == {<<"a">>, <<"a", "b">>, <<"c">>}
Prefixes == {<<"a">>, <<"c">>}

\* The dict save() appends to `metadata` for an entity.
MetaDict(e) ==
    [text |-> e.text, source |-> e.source, metadata |-> e.metadata,
     created_at |-> IsoFormat(e.created_at)]

\* json.dump: a tuple is written as a JSON array, which json.load reads
\* back as a list.
JsonValue(v) == IF v.kind = "tuple" THEN PyList(v.val) ELSE v
JsonDict(d) ==
    [d EXCEPT !.metadata =
        {[key |-> kv.key, value |-> JsonValue(kv.value)] : kv \in d.metadata}]
JsonDump(m) == [i \in 1..Len(m) |-> JsonDict(m[i])]

\* pickle.dump of the list of embeddings: the values of the list objects.
PickleDump(v) == [i \in 1..Len(v) |-> v[i].val]

\* A file: st is "absent" (no such path), "torn" (opened for writing,
\* truncated, content not yet written), "list" (a pickled or JSON list),
\* "embeddings" (a pickled dict with an 'embeddings' key) or "other".
File(st, rows) == [st |-> st, rows |-> rows]
Absent == File("absent", <<>>)
Torn == File("torn", <<>>)

----------------------------------------------------------------------------
(* Objects.  A loaded embedding is a Python list object; a record a read  *)
(* returns holds the very object that is in the cache.  An object is      *)
(* [oid, val]; changing an object in place changes every holder of it.    *)

Obj(oid, val) == [oid |-> oid, val |-> val]

OidsOf(v) == {v[i].oid : i \in 1..Len(v)}

UsedOids ==
    OidsOf(cache.v)
    \cup UNION {OidsOf(lv[q]) : q \in Tasks}
    \cup UNION {{ret[q].recs[i].embedding.oid : i \in 1..Len(ret[q].recs)} :
                q \in Tasks}

RECURSIVE TakeSmallest(_, _)
TakeSmallest(S, n) ==
    IF n = 0 THEN <<>>
    ELSE LET x == Min(S) IN <<x>> \o TakeSmallest(S \ {x}, n - 1)

\* n object identities that no live object has.
FreshOids(n) ==
    TakeSmallest({i \in 1..(Cardinality(UsedOids) + n) : i \notin UsedOids}, n)

\* New list objects for the values read from a file.
Allocate(vals) ==
    LET ids == FreshOids(Len(vals))
    IN  [i \in 1..Len(vals) |-> Obj(ids[i], vals[i])]

----------------------------------------------------------------------------
(* _load_vectors_sync, _load_metadata_sync and the repair in _load_all *)

\* pickle.load and the format dispatch of _load_vectors_sync.
LoadVectorsSync(f) ==
    IF f.st \in {"list", "embeddings"} THEN f.rows ELSE <<>>

\* json.load
LoadMetadataSync(f) == f.rows

Now == [sec |-> 9, usec |-> 9]
ToStr(n) == <<"0", "1", "2", "3", "4", "5", "6", "7", "8", "9">>[n + 1]

Placeholder(n) ==
    [text |-> "", source |-> <<"unknown-", ToStr(n)>>, metadata |-> {},
     created_at |-> IsoFormat(Now)]

\* while len(metadata) < len(vectors): metadata.append(placeholder)
RECURSIVE PadMetadata(_, _)
PadMetadata(m, n) ==
    IF Len(m) < n THEN PadMetadata(Append(m, Placeholder(Len(m))), n) ELSE m

\* The "Ensure consistency" block of _load_all.  The padding loop stands in
\* the branch where len(vectors) < len(metadata), as in the source.
EnsureConsistency(v, m) ==
    IF Len(v) # Len(m)
    THEN IF Len(v) > Len(m)
         THEN [v |-> SubSeq(v, 1, Len(m)), m |-> m]
         ELSE [v |-> v, m |-> PadMetadata(m, Len(v))]
    ELSE [v |-> v, m |-> m]

----------------------------------------------------------------------------
(* The bodies of the read methods, as functions of the loaded lists *)

NoRet == [st |-> "none", recs |-> <<>>, b |-> FALSE, n |-> 0]
Pending(k) == [st |-> "none", recs |-> <<>>, b |-> FALSE, n |-> k]
Raised == [st |-> "raised", recs |-> <<>>, b |-> FALSE, n |-> 0]
RetRecs(r) == [st |-> "ok", recs |-> r, b |-> FALSE, n |-> Len(r)]
RetBool(x) == [st |-> "ok", recs |-> <<>>, b |-> x, n |-> 0]
RetCount(k) == [st |-> "ok", recs |-> <<>>, b |-> FALSE, n |-> k]

\* VectorEmbedding(text=meta["text"], embedding=vectors[i], ...)
MakeEntity(embedding, meta) ==
    [text |-> meta.text, embedding |-> embedding, source |-> meta.source,
     metadata |-> meta.metadata,
     created_at |-> FromIsoFormat(meta.created_at)]

\* The indices of the metadata entries a predicate selects, ascending.
Matches(m, Test(_)) == {i \in 1..Len(m) : Test(m[i])}

FindAllResult(v, m) ==
    IF Len(v) < Len(m)
    THEN Raised                        \* vectors[i]: IndexError
    ELSE RetRecs([i \in 1..Len(m) |-> MakeEntity(v[i], m[i])])

FindByIdResult(v, m, id) ==
    LET hit(d) == d.source = id
        found == Matches(m, hit)
    IN  IF found = {} THEN RetRecs(<<>>)
        ELSE IF Min(found) > Len(v) THEN Raised
        ELSE RetRecs(<<MakeEntity(v[Min(found)], m[Min(found)])>>)

FindBySourcePrefixResult(v, m, prefix) ==
    LET all == FindAllResult(v, m)
        keep(e) == StartsWith(e.source, prefix)
    IN  IF all.st = "raised" THEN Raised
        ELSE RetRecs(SelectSeq(all.recs, keep))

ExistsResult(m, id) ==
    LET hit(d) == d.source = id
    IN  RetBool(Matches(m, hit) # {})

----------------------------------------------------------------------------
(* Cosine similarity and top-k selection (numpy, torch)                   *)

Abs(x) == IF x < 0 THEN -x ELSE x

\* np.dot of two vectors of one length
Dot(a, b) ==
    LET RECURSIVE S(_)
        S(i) == IF i = 0 THEN 0 ELSE a[i] * b[i] + S(i - 1)
    IN  S(Len(a))

NormSq(a) == Dot(a, a)

\* A float score: nan, or the number d / sqrt(n) with n > 0.
Num(d, n) == [nan |-> FALSE, d |-> d, n |-> n]
NaN == [nan |-> TRUE, d |-> 0, n |-> 1]

\* a < b and a == b on floats that are not nan
ScoreLt(a, b) == a.d * Abs(a.d) * b.n < b.d * Abs(b.d) * a.n
ScoreEq(a, b) == a.d * Abs(a.d) * b.n = b.d * Abs(b.d) * a.n

\* -a
Negated(a) == [i \in 1..Len(a) |-> [a[i] EXCEPT !.d = -a[i].d]]

\* np.dot(doc_vecs, query_vec) / (norm(doc_vecs, axis=1) * norm(query_vec)).
\* A zero norm makes the quotient 0.0 / 0.0: numpy warns and gives nan.
Similarities(vectors, q) ==
    [i \in 1..Len(vectors) |->
        IF NormSq(vectors[i]) * NormSq(q) = 0
        THEN NaN
        ELSE Num(Dot(vectors[i], q), NormSq(vectors[i]) * NormSq(q))]

\* util.cos_sim(query_embedding, corpus_embeddings)[0]: both sides are
\* normalised with torch.nn.functional.normalize, which divides by
\* max(norm, eps), so a zero vector stays zero and its score is 0.
CosSim(q, corpus) ==
    [i \in 1..Len(corpus) |->
        IF NormSq(corpus[i]) * NormSq(q) = 0
        THEN Num(0, 1)
        ELSE Num(Dot(corpus[i], q), NormSq(corpus[i]) * NormSq(q))]

\* The order np.argsort and np.argpartition put two elements in: nan is
\* placed after every number.
NpLe(a, b) == b.nan \/ (~a.nan /\ ~ScoreLt(b, a))

\* np.argsort(a): the index orders that sort a ascending.  The default
\* kind is not a stable sort, so equal elements may come in any order.
ArgSorts(a) ==
    {p \in [1..Len(a) -> 1..Len(a)] :
        /\ \A i, j \in 1..Len(a) : i # j => p[i] # p[j]
        /\ \A i \in 1..(Len(a) - 1) : NpLe(a[p[i]], a[p[i + 1]])}

\* np.argpartition(a, range(k))[0:k]: each of the first k places holds the
\* element a sort would put there.
ArgPartitions(a, k) == {SubSeq(p, 1, k) : p \in ArgSorts(a)}

\* s[-k:] and s[::-1]
LastSlice(s, k) ==
    IF k = 0 THEN s
    ELSE IF k > 0 THEN SubSeq(s, Max({1, Len(s) - k + 1}), Len(s))
    ELSE SubSeq(s, Min({-k, Len(s)}) + 1, Len(s))

Reverse(s) == [i \in 1..Len(s) |-> s[Len(s) + 1 - i]]

\* The (VectorEmbedding, score) pair search_similar builds for index idx.
\* idx is kept with the pair to say which stored record it is.
Scored(embedding, meta, score, idx) ==
    [text |-> meta.text, embedding |-> embedding, source |-> meta.source,
     metadata |-> meta.metadata,
     created_at |-> FromIsoFormat(meta.created_at),
     score |-> score, idx |-> idx]

\* search_similar after _load_all: the results it may return.
SearchSimilarResults(v, m, q, k) ==
    IF v = <<>> THEN {RetRecs(<<>>)}
    ELSE LET similarities == Similarities(PickleDump(v), q)
         IN  {RetRecs([i \in 1..Len(top) |->
                         Scored(v[top[i]], m[top[i]], similarities[top[i]],
                                top[i])]) :
                top \in {Reverse(LastSlice(p, k)) :
                           p \in ArgSorts(similarities)}}

----------------------------------------------------------------------------
(* The code a task runs between two suspensions.  Each operator below     *)
(* gives lock, cache, cacheDirty, pc, lv, lm and ret their next values.   *)

Mutators == {"save", "save_batch", "delete", "delete_by_source_prefix"}

\* list.pop(i) for every index in idx
RemoveAt(s, idx) ==
    LET keep == {i \in 1..Len(s) : i \notin idx}
        RECURSIVE Build(_)
        Build(K) == IF K = {} THEN <<>>
                    ELSE <<s[Min(K)]>> \o Build(K \ {Min(K)})
    IN  Build(keep)

\* The task suspends at `at` (an await that does not complete at once).
Suspend(p, at, v, m, lk, c, d, k) ==
    /\ pc' = [pc EXCEPT ![p] = at]
    /\ lv' = [lv EXCEPT ![p] = v]
    /\ lm' = [lm EXCEPT ![p] = m]
    /\ ret' = [ret EXCEPT ![p] = Pending(k)]
    /\ lock' = lk
    /\ cache' = c
    /\ cacheDirty' = d
    /\ failed' = failed

\* The call returns r (or raises), its locals are gone.
Return(p, r, lk, c, d) ==
    /\ pc' = [pc EXCEPT ![p] = "idle"]
    /\ lv' = [lv EXCEPT ![p] = <<>>]
    /\ lm' = [lm EXCEPT ![p] = <<>>]
    /\ ret' = [ret EXCEPT ![p] = r]
    /\ lock' = lk
    /\ cache' = c
    /\ cacheDirty' = d
    /\ failed' = (failed \/ r.st = "raised")

Cached(v, m) == [set |-> TRUE, v |-> v, m |-> m]

\* save / save_batch after _load_all: append to the two lists in place,
\* then await _save_all.
AppendAll(p, ents, v, m, lk) ==
    LET ids == FreshOids(Len(ents))
        v2 == v \o [i \in 1..Len(ents) |-> Obj(ids[i], ents[i].embedding)]
        m2 == m \o [i \in 1..Len(ents) |-> MetaDict(ents[i])]
    IN  Suspend(p, "save_vectors", v2, m2, lk, Cached(v2, m2), FALSE, 0)

\* A scan that falls back to the last entry when nothing matches.
FirstMatchOrLast(m, id) ==
    LET hit(d) == d.source = id
        found == Matches(m, hit)
    IN  IF found = {} THEN Len(m) ELSE Min(found)

\* The scan of delete: the first index whose source is the id (0: none).
FirstMatch(m, id) ==
    LET hit(d) == d.source = id
        found == Matches(m, hit)
    IN  IF found = {} THEN 0 ELSE Min(found)

\* delete after _load_all: pop the first entry whose source is the id,
\* save and return True; return False when the scan finds none.
DeleteFirst(p, id, v, m, lk) ==
    LET i == FirstMatch(m, id)
    IN  IF i = 0
        THEN Return(p, RetBool(FALSE), NoTask, Cached(v, m), FALSE)
        ELSE IF i > Len(v)
        THEN Return(p, Raised, NoTask, Cached(v, m), FALSE)
        ELSE LET v2 == RemoveAt(v, {i})
                 m2 == RemoveAt(m, {i})
             IN  Suspend(p, "save_vectors", v2, m2, lk, Cached(v2, m2),
                         FALSE, 1)

\* delete_by_source_prefix after _load_all
DeletePrefix(p, prefix, v, m, lk) ==
    LET hit(d) == StartsWith(d.source, prefix)
        found == Matches(m, hit)
    IN  IF found = {}
        THEN Return(p, RetCount(0), NoTask, Cached(v, m), FALSE)
        ELSE IF Max(found) > Len(v)
        THEN Return(p, Raised, NoTask, Cached(v, m), FALSE)
        ELSE LET v2 == RemoveAt(v, found)
                 m2 == RemoveAt(m, found)
             IN  Suspend(p, "save_vectors", v2, m2, lk, Cached(v2, m2),
                         FALSE, Cardinality(found))

\* What method o does once _load_all has returned the lists v, m, which
\* are the lists of the cache.
AfterLoad(p, o, a, v, m, lk) ==
    CASE o = "save" -> AppendAll(p, a.ents, v, m, lk)
      [] o = "save_batch" -> AppendAll(p, a.ents, v, m, lk)
      [] o = "delete" -> DeleteFirst(p, a.key, v, m, lk)
      [] o = "delete_by_source_prefix" -> DeletePrefix(p, a.key, v, m, lk)
      [] o = "find_all" ->
            Return(p, FindAllResult(v, m), lk, Cached(v, m), FALSE)
      [] o = "find_by_id" ->
            Return(p, FindByIdResult(v, m, a.key), lk, Cached(v, m), FALSE)
      [] o = "find_by_source_prefix" ->
            Return(p, FindBySourcePrefixResult(v, m, a.key), lk,
                   Cached(v, m), FALSE)
      [] o = "exists" ->
            Return(p, ExistsResult(m, a.key), lk, Cached(v, m), FALSE)
      [] o = "search_similar" ->
            \E r \in SearchSimilarResults(v, m, a.key.q, a.key.k) :
                Return(p, r, lk, Cached(v, m), FALSE)

\* The end of _load_all: repair, store in the cache, mark it clean.
FinishLoad(p, o, a, v, m, lk) ==
    LET r == EnsureConsistency(v, m)
    IN  AfterLoad(p, o, a, r.v, r.m, lk)

\* _load_metadata: the executor is used only if the file exists.
StartLoadMetadata(p, o, a, v, lk) ==
    IF metaFile.st # "absent"
    THEN Suspend(p, "load_metadata", v, <<>>, lk, cache, cacheDirty, 0)
    ELSE FinishLoad(p, o, a, v, <<>>, lk)

\* _load_all from its first line.
LoadAll(p, o, a, lk) ==
    IF cache.set /\ ~cacheDirty
    THEN AfterLoad(p, o, a, cache.v, cache.m, lk)
    ELSE IF vecFile.st # "absent"
         THEN Suspend(p, "load_vectors", <<>>, <<>>, lk, cache, cacheDirty, 0)
         ELSE StartLoadMetadata(p, o, a, <<>>, lk)

----------------------------------------------------------------------------
(* Calls *)

Arg(ents, key) == [ents |-> ents, key |-> key]
NoCall == [op |-> "idle", arg |-> Arg(<<>>, <<>>), ret |-> NoRet]

\* What _load_all would hand to a read that starts now (values only).
Visible ==
    IF cache.set /\ ~cacheDirty
    THEN [v |-> PickleDump(cache.v), m |-> cache.m]
    ELSE EnsureConsistency(LoadVectorsSync(vecFile), LoadMetadataSync(metaFile))

Snapshot == [v |-> vecFile, m |-> metaFile, vis |-> Visible]

\* Task p calls method o with argument a.  A mutating method first enters
\* `async with self._lock`; it waits if the lock is taken.  `track` says
\* whether the history variables prev and held are recorded.
Call(p, o, a, track) ==
    /\ pc[p] = "idle"
    /\ opsLeft > 0
    /\ opsLeft' = opsLeft - 1
    /\ op' = [op EXCEPT ![p] = o]
    /\ arg' = [arg EXCEPT ![p] = a]
    /\ prev' = [prev EXCEPT ![p] =
                  IF track
                  THEN [op |-> op[p], arg |-> arg[p], ret |-> ret[p]]
                  ELSE NoCall]
    /\ IF o \in Mutators
       THEN IF lock = NoTask
            THEN /\ LoadAll(p, o, a, p)
                 /\ held' = IF track THEN Snapshot ELSE held
            ELSE /\ Suspend(p, "wait_lock", <<>>, <<>>, lock, cache,
                            cacheDirty, 0)
                 /\ held' = held
       ELSE /\ LoadAll(p, o, a, lock)
            /\ held' = held
    /\ UNCHANGED <<vecFile, metaFile, saved, persisted, searchVars, chunkVars, refVars>>

Save(p, track) ==
    \E e \in Entities : Call(p, "save", Arg(<<e>>, <<>>), track)

SaveBatch(p, track) ==
    \E es \in Batches : Call(p, "save_batch", Arg(es, <<>>), track)

FindById(p, track) ==
    \E id \in Sources : Call(p, "find_by_id", Arg(<<>>, id), track)

FindAll(p, track) == Call(p, "find_all", Arg(<<>>, <<>>), track)

FindBySourcePrefix(p, track) ==
    \E prefix \in Prefixes :
        Call(p, "find_by_source_prefix", Arg(<<>>, prefix), track)

Delete(p, track) ==
    \E id \in Sources : Call(p, "delete", Arg(<<>>, id), track)

DeleteBySourcePrefix(p, track) ==
    \E prefix \in Prefixes :
        Call(p, "delete_by_source_prefix", Arg(<<>>, prefix), track)

Exists(p, track) ==
    \E id \in Sources : Call(p, "exists", Arg(<<>>, id), track)

\* The query embeddings and the k search_similar is called with.
QueryVecs == {<<1, 0>>, <<0, 0>>}

SearchSimilar(p, track) ==
    \E q \in QueryVecs, k \in 0..MaxTopK :
        Call(p, "search_similar", Arg(<<>>, [q |-> q, k |-> k]), track)

\* A task waiting for the lock gets it once it is free.
LockGranted(p) ==
    /\ pc[p] = "wait_lock"
    /\ lock = NoTask
    /\ LoadAll(p, op[p], arg[p], p)
    /\ UNCHANGED <<vecFile, metaFile, op, arg, prev, held, saved, persisted,
                   opsLeft, searchVars, chunkVars, refVars>>

----------------------------------------------------------------------------
(* Loading: the executor thread's file read, then the task's resumption *)

\* _load_vectors_sync in the executor.  A file another thread has opened
\* for writing and not yet written is empty: pickle.load raises.
ReadVectors(p) ==
    /\ pc[p] = "load_vectors"
    /\ IF vecFile.st = "torn"
       THEN /\ pc' = [pc EXCEPT ![p] = "load_raised"]
            /\ lv' = lv
       ELSE /\ pc' = [pc EXCEPT ![p] = "vectors_loaded"]
            /\ lv' = [lv EXCEPT ![p] = Allocate(LoadVectorsSync(vecFile))]
    /\ UNCHANGED <<vecFile, metaFile, lock, cache, cacheDirty, op, arg, lm,
                   ret, prev, held, saved, persisted, failed,
                   opsLeft, searchVars, chunkVars, refVars>>

ResumeLoadVectors(p) ==
    /\ pc[p] = "vectors_loaded"
    /\ StartLoadMetadata(p, op[p], arg[p], lv[p], lock)
    /\ UNCHANGED <<vecFile, metaFile, op, arg, prev, held, saved, persisted,
                   opsLeft, searchVars, chunkVars, refVars>>

\* _load_metadata_sync in the executor.
ReadMetadata(p) ==
    /\ pc[p] = "load_metadata"
    /\ IF metaFile.st = "torn"
       THEN /\ pc' = [pc EXCEPT ![p] = "load_raised"]
            /\ lm' = lm
       ELSE /\ pc' = [pc EXCEPT ![p] = "metadata_loaded"]
            /\ lm' = [lm EXCEPT ![p] = LoadMetadataSync(metaFile)]
    /\ UNCHANGED <<vecFile, metaFile, lock, cache, cacheDirty, op, arg, lv,
                   ret, prev, held, saved, persisted, failed,
                   opsLeft, searchVars, chunkVars, refVars>>

ResumeLoadMetadata(p) ==
    /\ pc[p] = "metadata_loaded"
    /\ FinishLoad(p, op[p], arg[p], lv[p], lm[p], lock)
    /\ UNCHANGED <<vecFile, metaFile, op, arg, prev, held, saved, persisted,
                   opsLeft, searchVars, chunkVars, refVars>>

\* The exception of a failed read propagates out of the method; `async
\* with` releases the lock on the way.
LoadRaised(p) ==
    /\ pc[p] = "load_raised"
    /\ Return(p, Raised, IF op[p] \in Mutators THEN NoTask ELSE lock, cache,
              cacheDirty)
    /\ UNCHANGED <<vecFile, metaFile, op, arg, prev, held, saved, persisted,
                   opsLeft, searchVars, chunkVars, refVars>>

----------------------------------------------------------------------------
(* _save_all: the executor thread opens and writes each file in turn *)

\* open(self.pickle_path, 'wb') truncates the file.
OpenVectors(p) ==
    /\ pc[p] = "save_vectors"
    /\ vecFile' = Torn
    /\ pc' = [pc EXCEPT ![p] = "vectors_open"]
    /\ UNCHANGED <<metaFile, lock, cache, cacheDirty, op, arg, lv, lm, ret,
                   prev, held, saved, persisted, failed,
                   opsLeft, searchVars, chunkVars, refVars>>

\* pickle.dump(vectors, f) and the close of the file.
DumpVectors(p) ==
    /\ pc[p] = "vectors_open"
    /\ vecFile' = File("list", PickleDump(lv[p]))
    /\ pc' = [pc EXCEPT ![p] = "vectors_saved"]
    /\ UNCHANGED <<metaFile, lock, cache, cacheDirty, op, arg, lv, lm, ret,
                   prev, held, saved, persisted, failed,
                   opsLeft, searchVars, chunkVars, refVars>>

\* _save_vectors returns; _save_metadata hands its write to the executor.
ResumeSaveVectors(p) ==
    /\ pc[p] = "vectors_saved"
    /\ pc' = [pc EXCEPT ![p] = "save_metadata"]
    /\ UNCHANGED <<vecFile, metaFile, lock, cache, cacheDirty, op, arg, lv,
                   lm, ret, prev, held, saved, persisted, failed,
                   opsLeft, searchVars, chunkVars, refVars>>

\* open(self.metadata_path, 'w') truncates the file.
OpenMetadata(p) ==
    /\ pc[p] = "save_metadata"
    /\ metaFile' = Torn
    /\ pc' = [pc EXCEPT ![p] = "metadata_open"]
    /\ UNCHANGED <<vecFile, lock, cache, cacheDirty, op, arg, lv, lm, ret,
                   prev, held, saved, persisted, failed,
                   opsLeft, searchVars, chunkVars, refVars>>

\* json.dump(metadata, f) and the close of the file.
DumpMetadata(p) ==
    /\ pc[p] = "metadata_open"
    /\ metaFile' = File("list", JsonDump(lm[p]))
    /\ pc' = [pc EXCEPT ![p] = "metadata_saved"]
    /\ persisted' = persisted \cup
                      {[v |-> LoadVectorsSync(vecFile), m |-> JsonDump(lm[p])]}
    /\ UNCHANGED <<vecFile, lock, cache, cacheDirty, op, arg, lv, lm, ret,
                   prev, held, saved, failed,
                   opsLeft, searchVars, chunkVars, refVars>>

\* _save_all returns: self._cache_dirty = True, the lock is released and
\* the method returns.
ResumeSaveMetadata(p) ==
    /\ pc[p] = "metadata_saved"
    /\ Return(p,
              CASE op[p] = "delete" -> RetBool(TRUE)
                [] op[p] = "delete_by_source_prefix" -> RetCount(ret[p].n)
                [] OTHER -> RetCount(0),
              NoTask, cache, TRUE)
    /\ saved' = IF op[p] \in {"save", "save_batch"}
                THEN saved \cup Range(arg[p].ents)
                ELSE saved
    /\ UNCHANGED <<vecFile, metaFile, op, arg, prev, held, persisted,
                   opsLeft, searchVars, chunkVars, refVars>>

----------------------------------------------------------------------------
(* A write of _save_all fails (OSError from open or from the dump) *)

\* open(self.pickle_path, 'wb') raises: the file is as it was.
FailOpenVectors(p) ==
    /\ pc[p] = "save_vectors"
    /\ pc' = [pc EXCEPT ![p] = "save_raised"]
    /\ UNCHANGED <<vecFile, metaFile, lock, cache, cacheDirty, op, arg, lv,
                   lm, ret, prev, held, saved, persisted, failed,
                   opsLeft, searchVars, chunkVars, refVars>>

\* pickle.dump raises after the open has truncated the file.
FailDumpVectors(p) ==
    /\ pc[p] = "vectors_open"
    /\ pc' = [pc EXCEPT ![p] = "save_raised"]
    /\ UNCHANGED <<vecFile, metaFile, lock, cache, cacheDirty, op, arg, lv,
                   lm, ret, prev, held, saved, persisted, failed,
                   opsLeft, searchVars, chunkVars, refVars>>

\* open(self.metadata_path, 'w') raises: the vectors are written, the
\* metadata file is as it was.
FailOpenMetadata(p) ==
    /\ pc[p] = "save_metadata"
    /\ pc' = [pc EXCEPT ![p] = "save_raised"]
    /\ UNCHANGED <<vecFile, metaFile, lock, cache, cacheDirty, op, arg, lv,
                   lm, ret, prev, held, saved, persisted, failed,
                   opsLeft, searchVars, chunkVars, refVars>>

\* json.dump raises after the open has truncated the file.
FailDumpMetadata(p) ==
    /\ pc[p] = "metadata_open"
    /\ pc' = [pc EXCEPT ![p] = "save_raised"]
    /\ UNCHANGED <<vecFile, metaFile, lock, cache, cacheDirty, op, arg, lv,
                   lm, ret, prev, held, saved, persisted, failed,
                   opsLeft, searchVars, chunkVars, refVars>>

\* The task resumes with the exception of the write: it leaves _save_all
\* and the method, `async with self._lock` releases the lock, and the
\* line self._cache_dirty = True is not reached.
SaveRaised(p) ==
    /\ pc[p] = "save_raised"
    /\ Return(p, Raised, NoTask, cache, cacheDirty)
    /\ UNCHANGED <<vecFile, metaFile, op, arg, prev, held, saved, persisted,
                   opsLeft, searchVars, chunkVars, refVars>>

----------------------------------------------------------------------------
(* The caller changes, in place, the embedding of a record it was given *)

\* result.embedding[0] = 9.0 on the object oid
SetFirst(o, oid) ==
    IF o.oid = oid THEN [o EXCEPT !.val = [o.val EXCEPT ![1] = 9]] ELSE o

MutateResult(p) ==
    /\ pc[p] = "idle"
    /\ ret[p].st = "ok"
    /\ \E i \in 1..Len(ret[p].recs) :
         LET oid == ret[p].recs[i].embedding.oid
             upd(v) == [j \in 1..Len(v) |-> SetFirst(v[j], oid)]
         IN  /\ ret[p].recs[i].embedding.val[1] # 9
             /\ ret' = [q \in Tasks |->
                          [ret[q] EXCEPT !.recs =
                             [j \in 1..Len(ret[q].recs) |->
                                [ret[q].recs[j] EXCEPT !.embedding =
                                   SetFirst(ret[q].recs[j].embedding, oid)]]]]
             /\ cache' = [cache EXCEPT !.v = upd(cache.v)]
             /\ lv' = [q \in Tasks |-> upd(lv[q])]
    /\ UNCHANGED <<vecFile, metaFile, lock, cacheDirty, op, arg, pc, lm,
                   prev, held, saved, persisted, failed,
                   opsLeft, searchVars, chunkVars, refVars>>

----------------------------------------------------------------------------
(* Cancellation of a task suspended inside a call (Task.cancel()) *)

\* asyncio.CancelledError leaves the method.
Cancelled == [st |-> "cancelled", recs |-> <<>>, b |-> FALSE, n |-> 0]

\* Task p is cancelled while it is suspended at an await of the call.
\* CancelledError is raised at that await: a queued executor job is
\* cancelled with it, a finished one keeps its effect, and `async with
\* self._lock` releases the lock as the exception leaves.  Nothing in
\* save, delete or _save_all shields an await or catches the exception.
\* A cancellation that arrives while the executor thread is inside a write
\* takes effect, here, when the thread has closed the file.
Cancel(p) ==
    /\ pc[p] \notin {"idle", "vectors_open", "metadata_open"}
    /\ Return(p, Cancelled,
              IF lock = p THEN NoTask ELSE lock, cache, cacheDirty)
    /\ UNCHANGED <<vecFile, metaFile, op, arg, prev, held, saved, persisted,
                   opsLeft, searchVars, chunkVars, refVars>>

----------------------------------------------------------------------------
(* vector_search.py: load_search_model and search_vectors_simple          *)

\* No search call has been made.
NoSearch == [fn |-> "none", query |-> "", top_k |-> 0,
             reconstruct |-> FALSE, chunks |-> <<>>]
NoResult == [st |-> "none", items |-> <<>>, err |-> "none"]

\* Results of the search functions: a list, an {'error': ...} dict, or an
\* exception that left the function.
ListResult(items) == [st |-> "list", items |-> items, err |-> "none"]
ErrorResult(kind) == [st |-> "error", items |-> <<>>, err |-> kind]
RaisedResult == [st |-> "raised", items |-> <<>>, err |-> "none"]

\* One entry of the pickled list: {'embedding', 'metadata', 'text'}.
Item(embedding, metadata, text) ==
    [embedding |-> embedding, metadata |-> metadata, text |-> text]

\* An item's metadata: a dict (with or without 'source' and
\* 'chunk_index_doc') or a value of another type.
ChunkMeta(source, index) ==
    [kind |-> "dict", has_source |-> TRUE, source |-> source, index |-> index]
NoSourceMeta(index) ==
    [kind |-> "dict", has_source |-> FALSE, source |-> "", index |-> index]
NotADict ==
    [kind |-> "other", has_source |-> FALSE, source |-> "",
     index |-> [kind |-> "missing", val |-> 0]]
\* No 'metadata' key at all.
NoMetadata ==
    [kind |-> "missing", has_source |-> FALSE, source |-> "",
     index |-> [kind |-> "missing", val |-> 0]]

\* chunk_index_doc: an int, a string of digits, a string int() rejects, or
\* no such key.
IntIndex(n) == [kind |-> "int", val |-> n]
DigitsIndex(n) == [kind |-> "digits", val |-> n]
TextIndex == [kind |-> "text", val |-> 0]
NoIndex == [kind |-> "missing", val |-> 0]

\* A chunk's 'score': a float, a value float() and max() reject, or no key.
FloatScore(x) == [kind |-> "float", val |-> x]
TextScore == [kind |-> "text", val |-> Num(0, 1)]
NoScore == [kind |-> "missing", val |-> Num(0, 1)]

\* A chunk's 'text': a str, or no such key.
Text(t) == [present |-> TRUE, val |-> t]
NoText == [present |-> FALSE, val |-> <<>>]

\* One result of search_vectors_simple.  idx is kept with the result to say
\* which stored item it is.
Chunk(score, metadata, text, idx) ==
    [kind |-> "dict", score |-> score, metadata |-> metadata, text |-> text,
     idx |-> idx]

\* An element of the result list that is not a dict.
NotAChunk ==
    [kind |-> "other", score |-> NoScore, metadata |-> NoMetadata,
     text |-> NoText, idx |-> 0]

\* model.encode(query)
Queries == {"tax", "zoning"}
Encode(query) == IF query = "tax" THEN <<1, 0>> ELSE <<1, 1>>

\* search_vectors_simple(query, model, vector_pkl, k): what it may return
\* and what it touched.
SearchVectorsSimpleResults(query, k) ==
    LET all_data == vectorPkl.items
        actual_k == Min({k, Len(all_data)})
        cos_scores ==
            CosSim(Encode(query),
                   [i \in 1..Len(all_data) |-> all_data[i].embedding])
        Format(top_indices) ==
            IF \E i \in 1..Len(top_indices) :
                   all_data[top_indices[i]].metadata.kind # "dict"
            THEN RaisedResult              \* metadata.get: AttributeError
            ELSE ListResult(
                   [i \in 1..Len(top_indices) |->
                      Chunk(FloatScore(cos_scores[top_indices[i]]),
                            all_data[top_indices[i]].metadata,
                            all_data[top_indices[i]].text,
                            top_indices[i])])
    IN  IF vectorPkl.st # "list" \/ all_data = <<>> \/ actual_k = 0
        THEN {[ret |-> ListResult(<<>>), log |-> <<"read_store">>]}
        ELSE {[ret |-> Format([i \in 1..actual_k |-> unsorted[sorted[i]]]),
               log |-> <<"read_store", "encode">>] :
                <<unsorted, sorted>> \in
                  UNION {{<<u, t>> :
                            t \in ArgSorts(Negated(
                                    [i \in 1..actual_k |-> cos_scores[u[i]]]))} :
                         u \in ArgPartitions(Negated(cos_scores), actual_k)}}

\* A direct call of search_vectors_simple with a loaded model.
SearchVectorsSimple ==
    \E query \in Queries, k \in 0..MaxTopK :
        \E r \in SearchVectorsSimpleResults(query, k) :
            /\ sCall' = [NoSearch EXCEPT !.fn = "search_vectors_simple",
                                         !.query = query, !.top_k = k]
            /\ sRet' = r.ret
            /\ sLog' = r.log
            /\ UNCHANGED <<modelDir, MODEL, vectorPkl, sFailed, repoVars, chunkVars, refVars>>

----------------------------------------------------------------------------
(* geminitools.search_bills *)

\* list.sort / sorted: a stable sort by the order Less
StableSort(s, Less(_, _)) ==
    LET RECURSIVE Ins(_, _)
        Ins(x, t) == IF t = <<>> THEN <<x>>
                     ELSE IF Less(x, Head(t)) THEN <<x>> \o t
                     ELSE <<Head(t)>> \o Ins(x, Tail(t))
        RECURSIVE Go(_)
        Go(i) == IF i = 0 THEN <<>> ELSE Ins(s[i], Go(i - 1))
    IN  Go(Len(s))

\* " ".join(texts), with a text as a sequence of words
RECURSIVE Join(_)
Join(texts) ==
    IF texts = <<>> THEN <<>>
    ELSE IF Len(texts) = 1 THEN texts[1]
    ELSE texts[1] \o <<" ">> \o Join(Tail(texts))

\* A check that skips only what is not a dict.
WellFormedAnyDict(chunk) ==
    ~(chunk.kind # "dict")

\* The chunks the grouping loop keeps: a dict with a dict 'metadata' with a
\* 'source'.
WellFormed(chunk) ==
    ~(\/ chunk.kind # "dict"
      \/ chunk.metadata.kind = "missing"
      \/ chunk.metadata.kind # "dict"
      \/ ~chunk.metadata.has_source)

\* The keys of bills_data, in the order the loop first meets them.
RECURSIVE SourcesOf(_)
SourcesOf(chunks) ==
    IF chunks = <<>> THEN <<>>
    ELSE LET rest == SourcesOf(SubSeq(chunks, 1, Len(chunks) - 1))
             src == chunks[Len(chunks)].metadata.source
         IN  IF src \in Range(rest) THEN rest ELSE Append(rest, src)

\* A grouping that puts every kept chunk in every group.
GroupAll(chunks, source) == chunks

\* bills_data[source]: the kept chunks of one source, in arrival order.
ChunksOf(chunks, source) ==
    LET mine(c) == c.metadata.source = source
    IN  SelectSeq(chunks, mine)

\* int(c['metadata']['chunk_index_doc']) succeeds
IndexParses(chunk) == chunk.metadata.index.kind \in {"int", "digits"}

\* A grouping that ignores the index kind and reads a missing or unusable
\* index as 0.
SortedChunksDefaultZero(chunks) ==
    LET before(a, b) == a.metadata.index.val < b.metadata.index.val
    IN  StableSort(chunks, before)

\* sorted(chunks, key=int(chunk_index_doc)), or the chunks as they came if
\* the key of any chunk raises KeyError, ValueError or TypeError.
SortedChunks(chunks) ==
    IF \A i \in 1..Len(chunks) : IndexParses(chunks[i])
    THEN LET before(a, b) == a.metadata.index.val < b.metadata.index.val
         IN  StableSort(chunks, before)
    ELSE chunks

\* str(c.get('text', ''))
TextOf(chunk) == IF chunk.text.present THEN chunk.text.val ELSE <<>>

\* max() of a non-empty list of floats
MaxOf(scores) ==
    CHOOSE x \in Range(scores) : \A y \in Range(scores) : ~ScoreLt(x, y)

\* A maximum that counts a missing score as 0.
MaxScoreDefaultZero(chunks) ==
    IF \E i \in 1..Len(chunks) : chunks[i].score.kind = "text"
    THEN Num(-1, 1)
    ELSE MaxOf([i \in 1..Len(chunks) |->
                  IF chunks[i].score.kind = "missing" THEN Num(0, 1)
                  ELSE chunks[i].score.val])

\* float(max([c.get('score', -1.0) for c in sorted_chunks])), or -1.0 when
\* max or float raises ValueError or TypeError.
MaxScore(chunks) ==
    IF \E i \in 1..Len(chunks) : chunks[i].score.kind = "text"
    THEN Num(-1, 1)
    ELSE MaxOf([i \in 1..Len(chunks) |->
                  IF chunks[i].score.kind = "missing" THEN Num(-1, 1)
                  ELSE chunks[i].score.val])

\* One entry of reconstructed_bills.
Bill(source, chunks) ==
    [source_bill |-> source,
     reconstructed_text |->
        Join([i \in 1..Len(chunks) |-> TextOf(chunks[i])]),
     max_score |-> MaxScore(chunks),
     contributing_chunks |-> Len(chunks)]

\* A descending sort that puts a bill before the earlier bills of the same
\* max_score.
SortBillsLaterFirst(bills) ==
    LET higher(a, b) == ~ScoreLt(a.max_score, b.max_score)
    IN  StableSort(bills, higher)

\* reconstructed_bills.sort(key=max_score, reverse=True): descending, and
\* bills of equal max_score stay in the order they were appended.
SortBills(bills) ==
    LET higher(a, b) == ScoreLt(b.max_score, a.max_score)
    IN  StableSort(bills, higher)

\* The reconstruction branch: group by source, order each group, build a
\* bill per group, sort the bills by max_score descending.
Reconstruct(search_results) ==
    LET kept == SelectSeq(search_results, WellFormed)
        sources == SourcesOf(kept)
        bills == [i \in 1..Len(sources) |->
                    Bill(sources[i],
                         SortedChunks(ChunksOf(kept, sources[i])))]
    IN  SortBills(bills)

\* missing_metadata_count after the grouping loop.
MissingMetadataCount(search_results) ==
    LET skipped(c) == ~WellFormed(c)
    IN  Len(SelectSeq(search_results, skipped))

\* What the reconstruction branch prints about skipped chunks: a warning
\* per skipped chunk, then one about the count if it is not 0.
ReconstructLog(search_results) ==
    LET n == MissingMetadataCount(search_results)
    IN  [i \in 1..n |-> "skip_chunk"]
          \o (IF n > 0 THEN <<"skipped_count">> ELSE <<>>)

\* What steps 3 and 4 print about skipped chunks.
ProcessLog(r, reconstruct) ==
    IF r.st = "raised" \/ r.items = <<>> \/ ~reconstruct THEN <<>>
    ELSE ReconstructLog(r.items)

\* Steps 3 and 4 of search_bills on what search_vectors_simple gave.
ProcessResults(r, reconstruct) ==
    IF r.st = "raised" THEN ErrorResult("search")
    ELSE IF r.items = <<>> THEN ListResult(<<>>)
    ELSE IF ~reconstruct THEN r
    ELSE ListResult(Reconstruct(r.items))

\* not query or not query.strip()
EmptyQueries == {"", "  "}

\* A validation that forgets strip().
IsEmptyQueryNoStrip(query) == query = ""

IsEmptyQuery(query) == query \in EmptyQueries

\* top_k as the caller passes it: an int, or a value int() rejects.
IntTopK(n) == [kind |-> "int", val |-> n]
BadTopK == [kind |-> "bad", val |-> 0]
TopKs == {IntTopK(0), IntTopK(2), IntTopK(11), BadTopK}

\* max(1, min(int(top_k), 10))
Clamp(n) == Max({1, Min({n, 10})})

\* A loader that keeps a marker in _MODEL when loading fails.
LoadSearchModelKeepsFailure ==
    IF MODEL # "None" THEN [model |-> MODEL, exc |-> "none", log |-> <<>>]
    ELSE IF modelDir = "missing"
    THEN [model |-> "failed", exc |-> "FileNotFoundError",
          log |-> <<"load_model">>]
    ELSE IF modelDir = "broken"
    THEN [model |-> "failed", exc |-> "RuntimeError",
          log |-> <<"load_model">>]
    ELSE [model |-> "loaded", exc |-> "none", log |-> <<"load_model">>]

\* load_search_model(model_path): the new _MODEL, the exception raised and
\* whether a load was attempted.
LoadSearchModel ==
    IF MODEL # "None" THEN [model |-> MODEL, exc |-> "none", log |-> <<>>]
    ELSE IF modelDir = "missing"
    THEN [model |-> "None", exc |-> "FileNotFoundError",
          log |-> <<"load_model">>]
    ELSE IF modelDir = "broken"
    THEN [model |-> "None", exc |-> "RuntimeError",
          log |-> <<"load_model">>]
    ELSE [model |-> "loaded", exc |-> "none", log |-> <<"load_model">>]

\* search_bills(query, top_k, reconstruct): what it may return, what it
\* touched and the _MODEL it leaves.
SearchBillsResults(query, top_k, reconstruct) ==
    IF IsEmptyQuery(query)
    THEN {[ret |-> ErrorResult("query"), log |-> <<>>, model |-> MODEL]}
    ELSE IF top_k.kind # "int"               \* int(top_k) raises
    THEN {[ret |-> RaisedResult, log |-> <<>>, model |-> MODEL]}
    ELSE LET loaded == LoadSearchModel
         IN  IF loaded.exc # "none"
             THEN {[ret |-> ErrorResult("model"), log |-> loaded.log,
                    model |-> loaded.model]}
             ELSE {[ret |-> ProcessResults(r.ret, reconstruct),
                    log |-> loaded.log \o r.log
                              \o ProcessLog(r.ret, reconstruct),
                    model |-> loaded.model] :
                     r \in SearchVectorsSimpleResults(query,
                                                      Clamp(top_k.val))}

BillQueries == EmptyQueries \cup Queries

SearchBills ==
    \E query \in BillQueries, top_k \in TopKs, reconstruct \in BOOLEAN :
        \E out \in SearchBillsResults(query, top_k, reconstruct) :
            /\ sCall' = [NoSearch EXCEPT !.fn = "search_bills",
                                         !.query = query, !.top_k = top_k,
                                         !.reconstruct = reconstruct]
            /\ sRet' = out.ret
            /\ sLog' = out.log
            /\ MODEL' = out.model
            /\ sFailed' = (sFailed \/ out.ret.err = "model")
            /\ UNCHANGED <<modelDir, vectorPkl, repoVars, chunkVars, refVars>>

\* The model directory is put in place (or repaired).
InstallModel ==
    /\ modelDir # "ok"
    /\ modelDir' = "ok"
    /\ UNCHANGED <<MODEL, vectorPkl, sCall, sRet, sLog, sFailed, repoVars, chunkVars, refVars>>

\* search_bills with search_vectors_simple replaced by a function that
\* returns the given chunks, as the tests do.
SearchBillsOver(chunks) ==
    \E reconstruct \in BOOLEAN :
        /\ sCall' = [NoSearch EXCEPT !.fn = "search_bills",
                                     !.query = "tax", !.top_k = IntTopK(5),
                                     !.reconstruct = reconstruct,
                                     !.chunks = chunks]
        /\ sRet' = ProcessResults(ListResult(chunks), reconstruct)
        /\ sLog' = ProcessLog(ListResult(chunks), reconstruct)
        /\ UNCHANGED <<modelDir, MODEL, vectorPkl, sFailed, repoVars, chunkVars, refVars>>

----------------------------------------------------------------------------
(* makeembeddings.py: the processing of one PDF *)

\* A token the tokenizer decodes to visible text, and one it decodes to
\* nothing but whitespace.
Word == "w"
Blank == "s"

\* One page of the PDF: whether get_text gave any text, and the tokens
\* tokenizer.encode made of it.
Page(has_text, tokens) == [has_text |-> has_text, tokens |-> tokens]

\* s[a:b] of Python, for any integers a and b
PySlice(s, a, b) ==
    LET n == Len(s)
        lo == IF a < 0 THEN Max({n + a, 0}) ELSE Min({a, n})
        hi == IF b < 0 THEN Max({n + b, 0}) ELSE Min({b, n})
    IN  SubSeq(s, lo + 1, hi)

\* A decoding that comes out blank as soon as one token is blank.
StripIfAnyBlank(chunk_tokens) ==
    IF \E i \in 1..Len(chunk_tokens) : chunk_tokens[i] = Blank THEN <<>>
    ELSE chunk_tokens

\* tokenizer.decode(chunk_tokens, skip_special_tokens=True).strip()
Strip(chunk_tokens) ==
    LET visible(t) == t = Word
    IN  SelectSeq(chunk_tokens, visible)

\* The pages before page i that contributed tokens, and the tokens so far.
RECURSIVE TokensBefore(_, _)
TokensBefore(pages, i) ==
    IF i = 1 THEN <<>>
    ELSE TokensBefore(pages, i - 1)
           \o (IF pages[i - 1].has_text THEN pages[i - 1].tokens ELSE <<>>)

\* The loop over the pages: full_text_tokens and page_map.
FullTextTokens(pages) == TokensBefore(pages, Len(pages) + 1)

PageMap(pages) ==
    LET with_text == {i \in 1..Len(pages) : pages[i].has_text}
        RECURSIVE Go(_)
        Go(i) ==
            IF i = 0 THEN <<>>
            ELSE IF i \in with_text
            THEN Append(Go(i - 1),
                        [token_start_index |-> Len(TokensBefore(pages, i)),
                         page_num |-> i])
            ELSE Go(i - 1)
    IN  Go(Len(pages))

\* The page the reverse scan finds: the last entry of page_map whose
\* token_start_index is <= start, or -1.
ReverseScan(pmap, start) ==
    LET at == {j \in 1..Len(pmap) : pmap[j].token_start_index <= start}
    IN  IF at = {} THEN -1 ELSE pmap[Max(at)].page_num

\* The loop over page_map for one chunk, from entry i on, with the
\* start_page and end_page found so far.
RECURSIVE PageLoop(_, _, _, _, _, _)
PageLoop(pmap, i, start, end_token, start_page, end_page) ==
    IF i > Len(pmap) THEN [start_page |-> start_page, end_page |-> end_page]
    ELSE LET mapping == pmap[i]
             sp == IF start_page = -1 /\ mapping.token_start_index >= start
                   THEN ReverseScan(pmap, start)
                   ELSE start_page
         IN  IF mapping.token_start_index < end_token
             THEN PageLoop(pmap, i + 1, start, end_token, sp,
                           mapping.page_num)
             ELSE IF sp # -1
             THEN [start_page |-> sp, end_page |-> end_page]     \* break
             ELSE PageLoop(pmap, i + 1, start, end_token, sp, end_page)

\* start_page and end_page of a chunk, after the two fallbacks.
PagesOf(pmap, start, end_token) ==
    LET found == PageLoop(pmap, 1, start, end_token, -1, -1)
        start_page == IF found.start_page = -1 /\ pmap # <<>>
                      THEN pmap[1].page_num
                      ELSE found.start_page
        end_page == IF found.end_page = -1 /\ start_page # -1
                    THEN start_page
                    ELSE found.end_page
    IN  [start_page |-> start_page, end_page |-> end_page]

\* f"p{start_page}" or f"pp{start_page}-{end_page}"
PageLabel(start_page, end_page) ==
    IF start_page = end_page \/ end_page = -1
    THEN [form |-> "p", first |-> start_page, last |-> start_page]
    ELSE [form |-> "pp", first |-> start_page, last |-> end_page]

\* The window the loop is at.
EndToken == start_token + chunk_size_tokens
ChunkTokens == PySlice(full_text_tokens, start_token, EndToken)

\* The loop runs at most this many times in the model.
MaxWindows == MaxPages * MaxPageTokens + 2

\* The chunker is not running.
ChunkIdle ==
    /\ doc = <<>>
    /\ chunk_size_tokens = 1
    /\ overlap_tokens = 0
    /\ full_text_tokens = <<>>
    /\ page_map = <<>>
    /\ start_token = 0
    /\ doc_chunk_index = 0
    /\ doc_chunks_data = <<>>
    /\ cpc = "idle"
    /\ windows = <<>>

\* Lines 77-97: the pages are read; a PDF without tokens is passed over.
ReadPages ==
    /\ cpc = "open"
    /\ full_text_tokens' = FullTextTokens(doc)
    /\ page_map' = PageMap(doc)
    /\ cpc' = IF FullTextTokens(doc) = <<>> THEN "skipped" ELSE "loop"
    /\ start_token' = 0
    /\ doc_chunk_index' = 0
    /\ UNCHANGED <<doc, chunk_size_tokens, overlap_tokens, doc_chunks_data,
                   windows, repoVars, searchVars, refVars>>

\* Line 98: the while condition fails.
WhileExit ==
    /\ cpc = "loop"
    /\ ~(start_token < Len(full_text_tokens))
    /\ cpc' = "done"
    /\ UNCHANGED <<doc, chunk_size_tokens, overlap_tokens, full_text_tokens,
                   page_map, start_token, doc_chunk_index, doc_chunks_data,
                   windows, repoVars, searchVars, refVars>>

\* An advance that steps over the overlap as well.
AdvanceWholeWindow == start_token + chunk_size_tokens

\* An advance that stays where it is.
AdvanceNowhere == start_token

\* start_token += chunk_size_tokens - overlap_tokens
Advance == start_token + (chunk_size_tokens - overlap_tokens)

\* Lines 99-106: a window of blank text is passed over.
DropWindow ==
    /\ cpc = "loop"
    /\ start_token < Len(full_text_tokens)
    /\ Len(windows) < MaxWindows
    /\ Strip(ChunkTokens) = <<>>
    /\ start_token' = Advance
    /\ windows' = Append(windows, [start |-> start_token, end |-> EndToken,
                                   emitted |-> FALSE])
    /\ UNCHANGED <<doc, chunk_size_tokens, overlap_tokens, full_text_tokens,
                   page_map, doc_chunk_index, doc_chunks_data, cpc,
                   repoVars, searchVars, refVars>>

\* An index that counts the windows, dropped ones too.
NextIndexCountsWindows == Len(windows)

\* The chunk_index_doc the next emitted chunk gets.
NextIndex == doc_chunk_index

\* Lines 99-145: a chunk is appended; the loop ends if its window reached
\* the end.
EmitChunk ==
    /\ cpc = "loop"
    /\ start_token < Len(full_text_tokens)
    /\ Len(windows) < MaxWindows
    /\ Strip(ChunkTokens) # <<>>
    /\ LET pages == PagesOf(page_map, start_token, EndToken)
           metadata ==
             [source |-> "doc.pdf",
              page_label |-> PageLabel(pages.start_page, pages.end_page),
              chunk_index_doc |-> NextIndex,
              start_token_index |-> start_token,
              end_token_index |-> Min({EndToken, Len(full_text_tokens)})]
       IN  doc_chunks_data' =
             Append(doc_chunks_data,
                    [text |-> ChunkTokens, metadata |-> metadata])
    /\ doc_chunk_index' = doc_chunk_index + 1
    /\ windows' = Append(windows, [start |-> start_token, end |-> EndToken,
                                   emitted |-> TRUE])
    /\ IF EndToken >= Len(full_text_tokens)
       THEN cpc' = "done" /\ UNCHANGED start_token
       ELSE cpc' = "loop" /\ start_token' = Advance
    /\ UNCHANGED <<doc, chunk_size_tokens, overlap_tokens, full_text_tokens,
                   page_map, repoVars, searchVars, refVars>>

----------------------------------------------------------------------------
(* repositories/bill_reference.py: get_next_reference *)

BillTypes == {"hr", "s"}

\* What the file holds for a bill type: nothing, a bare number (the legacy
\* format) or a dict with a reference_number.
NoRef == [form |-> "none", reference_number |-> 0]
LegacyRef(n) == [form |-> "int", reference_number |-> n]
DictRef(n) == [form |-> "dict", reference_number |-> n]

\* The references file, whole or opened for writing and not yet written.
RefFileOf(refs) == [st |-> "ok", refs |-> refs]
RefFileTorn == [st |-> "torn", refs |-> [t \in BillTypes |-> NoRef]]

\* async with self._lock: the lock can be taken
RefLockFreeAlways == TRUE

RefLockFree == refLock = NoTask

\* next_ref from refs.get(bill_type.value)
NextRef(current_ref) ==
    IF current_ref.form = "none" THEN 1
    ELSE IF current_ref.form = "int" THEN current_ref.reference_number + 1
    ELSE current_ref.reference_number + 1

\* No call is running.
RefIdle ==
    /\ refFile = RefFileOf([t \in BillTypes |-> NoRef])
    /\ refLock = NoTask
    /\ refPc = [p \in Tasks |-> "idle"]
    /\ refArg = [p \in Tasks |-> "hr"]
    /\ refRefs = [p \in Tasks |-> [t \in BillTypes |-> NoRef]]
    /\ refNext = [p \in Tasks |-> 0]
    /\ refReturned = [t \in BillTypes |-> <<>>]
    /\ refInit = [t \in BillTypes |-> NoRef]
    /\ refLeft = 0

\* A task calls get_next_reference(bill_type) and runs to the lock: it
\* takes it and goes on to _load_refs, or waits for it.
GetNextReference(p) ==
    \E bill_type \in BillTypes :
        /\ refPc[p] = "idle"
        /\ refLeft > 0
        /\ refLeft' = refLeft - 1
        /\ refArg' = [refArg EXCEPT ![p] = bill_type]
        /\ IF RefLockFree
           THEN refLock' = p /\ refPc' = [refPc EXCEPT ![p] = "load"]
           ELSE refLock' = refLock /\ refPc' = [refPc EXCEPT ![p] = "wait"]
        /\ UNCHANGED <<refFile, refRefs, refNext, refReturned, refInit,
                       repoVars, searchVars, chunkVars>>

\* The lock is released to a waiting task.
RefLockGranted(p) ==
    /\ refPc[p] = "wait"
    /\ RefLockFree
    /\ refLock' = p
    /\ refPc' = [refPc EXCEPT ![p] = "load"]
    /\ UNCHANGED <<refFile, refArg, refRefs, refNext, refReturned, refInit,
                   refLeft, repoVars, searchVars, chunkVars>>

\* _load_refs_sync in the executor: json.load of the file (which __init__
\* has created if it was not there).  On a file that is being written
\* json.load raises, and the call with it.
LoadRefsSync(p) ==
    /\ refPc[p] = "load"
    /\ IF refFile.st = "ok"
       THEN /\ refRefs' = [refRefs EXCEPT ![p] = refFile.refs]
            /\ refPc' = [refPc EXCEPT ![p] = "loaded"]
       ELSE /\ refRefs' = refRefs
            /\ refPc' = [refPc EXCEPT ![p] = "load_raised"]
    /\ UNCHANGED <<refFile, refLock, refArg, refNext, refReturned, refInit,
                   refLeft, repoVars, searchVars, chunkVars>>

\* Lines 108-124: next_ref is computed, put in refs, and the save starts.
RefResumeLoad(p) ==
    /\ refPc[p] = "loaded"
    /\ LET next_ref == NextRef(refRefs[p][refArg[p]])
       IN  /\ refNext' = [refNext EXCEPT ![p] = next_ref]
           /\ refRefs' = [refRefs EXCEPT ![p][refArg[p]] = DictRef(next_ref)]
    /\ refPc' = [refPc EXCEPT ![p] = "save"]
    /\ UNCHANGED <<refFile, refLock, refArg, refReturned, refInit, refLeft,
                   repoVars, searchVars, chunkVars>>

\* _save_refs_sync in the executor: open(file_path, 'w') empties the file.
RefOpen(p) ==
    /\ refPc[p] = "save"
    /\ refFile' = RefFileTorn
    /\ refPc' = [refPc EXCEPT ![p] = "save_open"]
    /\ UNCHANGED <<refLock, refArg, refRefs, refNext, refReturned, refInit,
                   refLeft, repoVars, searchVars, chunkVars>>

\* _save_refs_sync in the executor: json.dump(refs, f) and close.
RefDump(p) ==
    /\ refPc[p] = "save_open"
    /\ refFile' = RefFileOf(refRefs[p])
    /\ refPc' = [refPc EXCEPT ![p] = "saved"]
    /\ UNCHANGED <<refLock, refArg, refRefs, refNext, refReturned, refInit,
                   refLeft, repoVars, searchVars, chunkVars>>

\* The task resumes after the save, releases the lock and returns next_ref.
RefReturn(p) ==
    /\ refPc[p] = "saved"
    /\ refLock' = IF refLock = p THEN NoTask ELSE refLock
    /\ refReturned' = [refReturned EXCEPT
                         ![refArg[p]] = Append(@, refNext[p])]
    /\ refPc' = [refPc EXCEPT ![p] = "idle"]
    /\ UNCHANGED <<refFile, refArg, refRefs, refNext, refInit, refLeft,
                   repoVars, searchVars, chunkVars>>

----------------------------------------------------------------------------
(* Specifications *)

\* The files a store of the given entities leaves on disk.
StoreFiles(ents) ==
    [v |-> File("list", [i \in 1..Len(ents) |-> ents[i].embedding]),
     m |-> File("list", JsonDump([i \in 1..Len(ents) |-> MetaDict(ents[i])]))]

InitRepo(calls) ==
    /\ lock = NoTask
    /\ cache = [set |-> FALSE, v |-> <<>>, m |-> <<>>]
    /\ cacheDirty = TRUE
    /\ op = [p \in Tasks |-> "idle"]
    /\ arg = [p \in Tasks |-> Arg(<<>>, <<>>)]
    /\ pc = [p \in Tasks |-> "idle"]
    /\ lv = [p \in Tasks |-> <<>>]
    /\ lm = [p \in Tasks |-> <<>>]
    /\ ret = [p \in Tasks |-> NoRet]
    /\ prev = [p \in Tasks |-> NoCall]
    /\ saved = {}
    /\ failed = FALSE
    /\ persisted = {[v |-> LoadVectorsSync(vecFile),
                     m |-> LoadMetadataSync(metaFile)]}
    /\ held = Snapshot
    /\ opsLeft = calls

SearchIdle ==
    /\ modelDir = "ok"
    /\ MODEL = "None"
    /\ vectorPkl = [st |-> "absent", items |-> <<>>]
    /\ sCall = NoSearch
    /\ sRet = NoResult
    /\ sLog = <<>>
    /\ sFailed = FALSE

InitMemory(calls) == InitRepo(calls) /\ ChunkIdle /\ RefIdle /\ SearchIdle

\* A new repository over no files, or over the files an earlier run left.
InitFiles ==
    \/ vecFile = Absent /\ metaFile = Absent
    \/ /\ vecFile = StoreFiles(<<EntA1, EntB>>).v
       /\ metaFile = StoreFiles(<<EntA1, EntB>>).m

Init == InitFiles /\ InitMemory(MaxCalls)

Steps(p) ==
    \/ LockGranted(p)
    \/ ReadVectors(p) \/ ResumeLoadVectors(p)
    \/ ReadMetadata(p) \/ ResumeLoadMetadata(p)
    \/ LoadRaised(p)
    \/ OpenVectors(p) \/ DumpVectors(p) \/ ResumeSaveVectors(p)
    \/ OpenMetadata(p) \/ DumpMetadata(p) \/ ResumeSaveMetadata(p)

Next ==
    \E p \in Tasks :
        \/ Save(p, FALSE) \/ SaveBatch(p, FALSE)
        \/ Delete(p, FALSE) \/ DeleteBySourcePrefix(p, FALSE)
        \/ FindById(p, FALSE) \/ FindAll(p, FALSE)
        \/ FindBySourcePrefix(p, FALSE) \/ Exists(p, FALSE)
        \/ Steps(p)

Spec == Init /\ [][Next]_vars

\* Concurrent appends and reads only.
InitAppend == InitFiles /\ InitMemory(MaxAppendCalls)

NextAppend ==
    \E p \in Tasks :
        \/ Save(p, FALSE) \/ SaveBatch(p, FALSE)
        \/ FindById(p, FALSE) \/ FindAll(p, FALSE) \/ Exists(p, FALSE)
        \/ Steps(p)

SpecAppend == InitAppend /\ [][NextAppend]_vars

\* One task: every call returns before the next is made.
Caller == "t1"

InitSeq == InitFiles /\ InitMemory(MaxSeqCalls)

NextSeq ==
    \/ Save(Caller, TRUE) \/ SaveBatch(Caller, TRUE)
    \/ Delete(Caller, TRUE) \/ DeleteBySourcePrefix(Caller, TRUE)
    \/ FindById(Caller, TRUE) \/ FindAll(Caller, TRUE)
    \/ FindBySourcePrefix(Caller, TRUE) \/ Exists(Caller, TRUE)
    \/ ReadVectors(Caller) \/ ResumeLoadVectors(Caller)
    \/ ReadMetadata(Caller) \/ ResumeLoadMetadata(Caller)
    \/ OpenVectors(Caller) \/ DumpVectors(Caller)
    \/ ResumeSaveVectors(Caller)
    \/ OpenMetadata(Caller) \/ DumpMetadata(Caller)
    \/ ResumeSaveMetadata(Caller)

SpecSeq == InitSeq /\ [][NextSeq]_vars

\* One task that also changes, in place, the records its reads returned.
NextAlias == NextSeq \/ MutateResult(Caller)

SpecAlias == InitSeq /\ [][NextAlias]_vars

\* One task whose calls may be cancelled while they are suspended.
NextCancel == NextSeq \/ Cancel(Caller)

SpecCancel == InitSeq /\ [][NextCancel]_vars

\* One task whose writes may fail.
NextWriteFail ==
    \/ NextSeq
    \/ FailOpenVectors(Caller) \/ FailDumpVectors(Caller)
    \/ FailOpenMetadata(Caller) \/ FailDumpMetadata(Caller)
    \/ SaveRaised(Caller)

SpecWriteFail == InitSeq /\ [][NextWriteFail]_vars

\* One task reading a store whose two files an earlier run or a crash left
\* with any row counts.
LoadRows == {<<>>, <<EntA1>>, <<EntA1, EntB>>}

InitLoad ==
    /\ vecFile \in {Absent, File("other", <<>>)} \cup
         {File(st, StoreFiles(rows).v.rows) :
            st \in {"list", "embeddings"}, rows \in LoadRows}
    /\ metaFile \in {Absent} \cup {StoreFiles(rows).m : rows \in LoadRows}
    /\ InitMemory(MaxLoadCalls)

NextLoad ==
    \/ FindById(Caller, TRUE) \/ FindAll(Caller, TRUE)
    \/ FindBySourcePrefix(Caller, TRUE) \/ Exists(Caller, TRUE)
    \/ ReadVectors(Caller) \/ ResumeLoadVectors(Caller)
    \/ ReadMetadata(Caller) \/ ResumeLoadMetadata(Caller)

SpecLoad == InitLoad /\ [][NextLoad]_vars

\* One task searching a store of up to MaxStore records, through the
\* repository (search_similar) and through the pickle file of
\* search_vectors_simple.
SearchVecs == {<<1, 0>>, <<1, 1>>, <<0, 0>>}

SearchStores ==
    UNION {[1..n -> SearchVecs] : n \in 0..MaxStore}

SearchEntity(vec, i) ==
    [text |-> ToStr(i), embedding |-> vec, source |-> <<"a">>,
     metadata |-> {}, created_at |-> [sec |-> i, usec |-> 0]]

InitSearch ==
    \E vecs \in SearchStores :
        LET ents == [i \in 1..Len(vecs) |-> SearchEntity(vecs[i], i)]
        IN  /\ vecFile = StoreFiles(ents).v
            /\ metaFile = StoreFiles(ents).m
            /\ InitRepo(MaxLoadCalls) /\ ChunkIdle /\ RefIdle
            /\ modelDir = "ok"
            /\ MODEL = "loaded"
            /\ vectorPkl =
                 [st |-> "list",
                  items |-> [i \in 1..Len(vecs) |->
                               Item(vecs[i], ChunkMeta("bill", IntIndex(i)),
                                    Text(<<ToStr(i)>>))]]
            /\ sCall = NoSearch
            /\ sRet = NoResult
            /\ sLog = <<>>
            /\ sFailed = FALSE

\* A run searches through one of the two functions.
NextSearch ==
    \/ sCall.fn = "none" /\ SearchSimilar(Caller, FALSE)
    \/ ReadVectors(Caller) \/ ResumeLoadVectors(Caller)
    \/ ReadMetadata(Caller) \/ ResumeLoadMetadata(Caller)
    \/ op[Caller] = "idle" /\ SearchVectorsSimple

SpecSearch == InitSearch /\ [][NextSearch]_vars

\* One task searching the repository with search_similar.
NextSimilar ==
    \/ SearchSimilar(Caller, FALSE)
    \/ ReadVectors(Caller) \/ ResumeLoadVectors(Caller)
    \/ ReadMetadata(Caller) \/ ResumeLoadMetadata(Caller)

SpecSimilar == InitSearch /\ [][NextSimilar]_vars

\* search_bills over a model directory and a vector file in any condition.
GoodStore ==
    <<Item(<<1, 0>>, ChunkMeta("hr1", IntIndex(1)), Text(<<"b">>)),
      Item(<<1, 1>>, ChunkMeta("hr2", IntIndex(0)), Text(<<"c">>)),
      Item(<<1, 0>>, ChunkMeta("hr1", IntIndex(0)), Text(<<"a">>))>>
BadStore == <<Item(<<1, 0>>, NotADict, Text(<<"x">>))>>

InitBills ==
    /\ vecFile = Absent
    /\ metaFile = Absent
    /\ InitRepo(0) /\ ChunkIdle /\ RefIdle
    /\ modelDir \in {"missing", "broken", "ok"}
    /\ MODEL = "None"
    /\ vectorPkl \in
         {[st |-> "absent", items |-> <<>>],
          [st |-> "corrupt", items |-> <<>>],
          [st |-> "list", items |-> <<>>],
          [st |-> "list", items |-> GoodStore],
          [st |-> "list", items |-> BadStore]}
    /\ sCall = NoSearch
    /\ sRet = NoResult
    /\ sLog = <<>>
    /\ sFailed = FALSE

NextBills == SearchBills \/ InstallModel

SpecBills == InitBills /\ [][NextBills]_vars

\* search_bills over the chunks a stubbed search_vectors_simple returns.
StubChunks ==
    {Chunk(FloatScore(Num(1, 4)), ChunkMeta("hr1", IntIndex(2)),
           Text(<<"a2">>), 0),
     Chunk(FloatScore(Num(1, 1)), ChunkMeta("hr1", IntIndex(0)),
           Text(<<"a0">>), 0),
     Chunk(FloatScore(Num(1, 2)), ChunkMeta("hr1", DigitsIndex(1)),
           Text(<<"a1">>), 0),
     Chunk(TextScore, ChunkMeta("hr1", IntIndex(1)), Text(<<"a1", "x">>), 0),
     Chunk(NoScore, ChunkMeta("hr1", TextIndex), Text(<<"ax">>), 0),
     Chunk(FloatScore(Num(1, 2)), ChunkMeta("hr2", IntIndex(0)),
           Text(<<"b0">>), 0),
     Chunk(FloatScore(Num(1, 1)), ChunkMeta("hr2", NoIndex), NoText, 0),
     Chunk(FloatScore(Num(1, 1)), NoSourceMeta(IntIndex(0)),
           Text(<<"n">>), 0),
     Chunk(FloatScore(Num(1, 1)), NotADict, Text(<<"d">>), 0),
     Chunk(NoScore, NoMetadata, Text(<<"m">>), 0),
     NotAChunk}

ChunkLists == UNION {[1..n -> StubChunks] : n \in 0..MaxChunks}

InitReconstruct ==
    /\ vecFile = Absent
    /\ metaFile = Absent
    /\ InitRepo(0) /\ ChunkIdle /\ RefIdle
    /\ modelDir = "ok"
    /\ MODEL = "loaded"
    /\ vectorPkl = [st |-> "absent", items |-> <<>>]
    /\ sCall \in {[NoSearch EXCEPT !.chunks = chunks] : chunks \in ChunkLists}
    /\ sRet = NoResult
    /\ sLog = <<>>
    /\ sFailed = FALSE

NextReconstruct == SearchBillsOver(sCall.chunks)

SpecReconstruct == InitReconstruct /\ [][NextReconstruct]_vars

\* makeembeddings on one PDF, for every small PDF and every window and
\* overlap.
TokenSeqs == UNION {[1..n -> {Word, Blank}] : n \in 0..MaxPageTokens}
PageChoices == {Page(FALSE, <<>>)} \cup {Page(TRUE, t) : t \in TokenSeqs}
Docs == UNION {[1..n -> PageChoices] : n \in 0..MaxPages}

InitChunkAny ==
    /\ vecFile = Absent
    /\ metaFile = Absent
    /\ InitRepo(0)
    /\ SearchIdle
    /\ RefIdle
    /\ doc \in Docs
    /\ chunk_size_tokens \in 1..MaxWindow
    /\ overlap_tokens \in 0..MaxWindow
    /\ full_text_tokens = <<>>
    /\ page_map = <<>>
    /\ start_token = 0
    /\ doc_chunk_index = 0
    /\ doc_chunks_data = <<>>
    /\ cpc = "open"
    /\ windows = <<>>

NextChunk == ReadPages \/ WhileExit \/ DropWindow \/ EmitChunk

SpecChunkAny == InitChunkAny /\ [][NextChunk]_vars

\* The same with an overlap below the window.  The script runs on its own:
\* it takes its next step whenever it has one.
InitChunk == InitChunkAny /\ overlap_tokens < chunk_size_tokens

SpecChunk == InitChunk /\ [][NextChunk]_vars /\ WF_vars(NextChunk)

\* Tasks of one event loop calling get_next_reference on one repository,
\* over a file an earlier run left.
StoredRefs == {NoRef, LegacyRef(1), DictRef(2)}

InitRefs ==
    /\ vecFile = Absent
    /\ metaFile = Absent
    /\ InitRepo(0)
    /\ SearchIdle
    /\ ChunkIdle
    /\ refInit \in [BillTypes -> StoredRefs]
    /\ refFile = RefFileOf(refInit)
    /\ refLock = NoTask
    /\ refPc = [p \in Tasks |-> "idle"]
    /\ refArg = [p \in Tasks |-> "hr"]
    /\ refRefs = [p \in Tasks |-> [t \in BillTypes |-> NoRef]]
    /\ refNext = [p \in Tasks |-> 0]
    /\ refReturned = [t \in BillTypes |-> <<>>]
    /\ refLeft = MaxRefCalls

RefSteps(p) ==
    \/ GetNextReference(p)
    \/ RefLockGranted(p)
    \/ LoadRefsSync(p)
    \/ RefResumeLoad(p)
    \/ RefOpen(p)
    \/ RefDump(p)
    \/ RefReturn(p)

NextRefs == \E p \in Tasks : RefSteps(p)

SpecRefs == InitRefs /\ [][NextRefs]_vars

----------------------------------------------------------------------------
(* Properties *)

Quiet == \A p \in Tasks : pc[p] = "idle"

VecRows == LoadVectorsSync(vecFile)
MetaRows == LoadMetadataSync(metaFile)

\* The metadata entry json.load gives back for a saved entity.
StoredDict(e) == JsonDict(MetaDict(e))

\* A returned record with its embedding as a plain value.
EntityValue(r) == [r EXCEPT !.embedding = r.embedding.val]
EntityValues(recs) == [i \in 1..Len(recs) |-> EntityValue(recs[i])]

AsObjects(vals) == [i \in 1..Len(vals) |-> Obj(0, vals[i])]

\* The embedding and the metadata entry were appended together.
Paired(val, d) ==
    \E e \in Entities \cup {EntB} : e.embedding = val /\ StoredDict(e) = d

Aligned(v, m) ==
    /\ Len(v) = Len(m)
    /\ \A i \in 1..Len(v) : Paired(v[i], m[i])

\* C1: once all concurrent save / save_batch calls and reads have returned
\* successfully, the persisted vectors and the persisted metadata contain
\* every record an append added.
C1_NoAppendLost ==
    (Quiet /\ ~failed) =>
        \A e \in saved :
            /\ e.embedding \in Range(VecRows)
            /\ StoredDict(e) \in Range(MetaRows)

\* C2: a find_all or find_by_id that ran concurrently with mutations has
\* not failed, and what it returned is what the method returns on some fully
\* persisted state of the store (vectors and metadata of the same write).
C2_ReadsSeePersistedSnapshot ==
    \A p \in Tasks :
        (pc[p] = "idle" /\ op[p] \in {"find_all", "find_by_id"}) =>
            /\ ret[p].st = "ok"
            /\ \E s \in persisted :
                 LET r == IF op[p] = "find_all"
                          THEN FindAllResult(AsObjects(s.v), s.m)
                          ELSE FindByIdResult(AsObjects(s.v), s.m, arg[p].key)
                 IN  /\ r.st = "ok"
                     /\ EntityValues(r.recs) = EntityValues(ret[p].recs)

\* C3: whenever no mutation is in progress, a cache marked clean holds
\* what the last successful write left in the files, so a read that starts
\* then sees that write.
C3_CleanCacheIsCurrent ==
    (lock = NoTask /\ cache.set /\ ~cacheDirty) =>
        /\ vecFile.st # "torn" /\ metaFile.st # "torn"
        /\ [v |-> PickleDump(cache.v), m |-> cache.m]
             = EnsureConsistency(VecRows, MetaRows)

\* C4: whenever no write is in progress, the persisted vectors and metadata
\* have the same length and entry i of the one was appended together with
\* entry i of the other.
C4_PersistedAligned ==
    lock = NoTask => Aligned(VecRows, MetaRows)

\* C5: whatever row counts the two files have, _load_all returns lists of
\* equal length and no read fails on an index.
C5_LoadRepairs ==
    /\ cache.set => Len(cache.v) = Len(cache.m)
    /\ \A p \in Tasks : ret[p].st # "raised"

\* C6: once delete(source) has returned True, no stored record has that
\* source: exists(source) is false and find_by_id(source) finds nothing.
C6_DeleteRemovesSource ==
    \A p \in Tasks :
        (pc[p] = "idle" /\ op[p] = "delete" /\ ret[p] = RetBool(TRUE)) =>
            /\ \A i \in 1..Len(MetaRows) : MetaRows[i].source # arg[p].key
            /\ ~ExistsResult(Visible.m, arg[p].key).b
            /\ FindByIdResult(AsObjects(Visible.v), Visible.m,
                              arg[p].key).recs = <<>>

\* C7: delete of a source no stored record has returns False and leaves
\* the two files and what reads return as they were when it took the lock;
\* a second identical call returns False again.
C7_DeleteMissing ==
    (pc[Caller] = "idle" /\ op[Caller] = "delete") =>
        /\ (\A i \in 1..Len(held.vis.m) :
                held.vis.m[i].source # arg[Caller].key) =>
              /\ ret[Caller] = RetBool(FALSE)
              /\ vecFile = held.v
              /\ metaFile = held.m
              /\ Visible = held.vis
        /\ (/\ prev[Caller].op = "delete"
            /\ prev[Caller].arg = arg[Caller]
            /\ prev[Caller].ret = RetBool(FALSE)) =>
              ret[Caller] = RetBool(FALSE)

\* C7 witness: on a store that holds records, two delete calls in a row
\* for a source it does not hold have both returned False.
C7_Witness ==
    /\ pc[Caller] = "idle"
    /\ op[Caller] = "delete"
    /\ prev[Caller].op = "delete"
    /\ prev[Caller].arg = arg[Caller]
    /\ prev[Caller].ret = RetBool(FALSE)
    /\ ret[Caller] = RetBool(FALSE)
    /\ Len(MetaRows) > 0
    /\ \A i \in 1..Len(MetaRows) : MetaRows[i].source # arg[Caller].key

\* C8: find_by_id(r.source) called right after save(r) has returned gives
\* exactly one record, value-equal to r.
C8_RoundTrip ==
    (/\ pc[Caller] = "idle"
     /\ op[Caller] = "find_by_id"
     /\ prev[Caller].op = "save"
     /\ prev[Caller].ret.st = "ok"
     /\ prev[Caller].arg.ents[1].source = arg[Caller].key) =>
        /\ ret[Caller].st = "ok"
        /\ EntityValues(ret[Caller].recs) = prev[Caller].arg.ents

\* C9: a save or save_batch of an embedding whose length differs from the
\* stored ones raises and leaves the files as they were, so the persisted
\* embeddings all have one length.
C9_OneEmbeddingLength ==
    /\ \A i, j \in 1..Len(VecRows) : Len(VecRows[i]) = Len(VecRows[j])
    /\ (/\ pc[Caller] = "idle"
        /\ op[Caller] \in {"save", "save_batch"}
        /\ \E i \in 1..Len(held.vis.v), j \in 1..Len(arg[Caller].ents) :
             Len(held.vis.v[i]) # Len(arg[Caller].ents[j].embedding)) =>
          /\ ret[Caller].st = "raised"
          /\ vecFile = held.v
          /\ metaFile = held.m

\* C10: changing, in place, the embedding of a record a read returned does
\* not change what a later read returns.
C10_ResultsAreCopies ==
    [][(\E p \in Tasks : MutateResult(p)) => Visible' = Visible]_vars

\* C11: a mutation that holds the lock runs to completion or failure before
\* the lock is released, also when its task is cancelled: whenever the lock
\* is free, the persisted vectors and the persisted metadata have the same
\* length.
C11_CancelKeepsLengths ==
    lock = NoTask =>
        /\ vecFile.st # "torn" /\ metaFile.st # "torn"
        /\ Len(VecRows) = Len(MetaRows)

\* The results of the last search as (store index, score) pairs, and the
\* score of every stored record for that search.
SimilarDone == pc[Caller] = "idle" /\ op[Caller] = "search_similar"
SimilarHits ==
    [i \in 1..Len(ret[Caller].recs) |->
        [idx |-> ret[Caller].recs[i].idx, score |-> ret[Caller].recs[i].score]]
SimilarScores == Similarities(VecRows, arg[Caller].key.q)

SimpleDone == sCall.fn = "search_vectors_simple"
SimpleHits ==
    [i \in 1..Len(sRet.items) |->
        [idx |-> sRet.items[i].idx, score |-> sRet.items[i].score.val]]
SimpleScores ==
    CosSim(Encode(sCall.query),
           [i \in 1..Len(vectorPkl.items) |-> vectorPkl.items[i].embedding])

\* Two scores that are equal numbers (nan equals nothing).
SameScore(a, b) == ~a.nan /\ ~b.nan /\ ScoreEq(a, b)

\* min(k, n) results in descending order of score (the order among equal
\* scores is C13's), all of the store when k >= n.
TopKOf(hits, n, k) ==
    /\ Len(hits) = Min({k, n})
    /\ \A i \in 1..(Len(hits) - 1) :
         /\ ~hits[i].score.nan /\ ~hits[i + 1].score.nan
         /\ ~ScoreLt(hits[i].score, hits[i + 1].score)
    /\ k >= n => {hits[i].idx : i \in 1..Len(hits)} = 1..n

\* C12: for a store of n records and any k, search_similar and
\* search_vectors_simple return exactly min(k, n) results in descending
\* order of score; for k >= n that is the whole store, for an empty store
\* nothing.
C12_TopK ==
    /\ SimilarDone =>
         /\ ret[Caller].st = "ok"
         /\ TopKOf(SimilarHits, Len(VecRows), arg[Caller].key.k)
    /\ SimpleDone =>
         /\ sRet.st = "list"
         /\ TopKOf(SimpleHits, Len(vectorPkl.items), sCall.top_k)

\* Among equal scores the smaller store index comes first, and a returned
\* record has a smaller index than any record of equal score left out.
TieOrder(hits, scores) ==
    /\ \A i, j \in 1..Len(hits) :
         (i < j /\ SameScore(hits[i].score, hits[j].score)) =>
            hits[i].idx < hits[j].idx
    /\ \A i \in 1..Len(hits), e \in 1..Len(scores) :
         (/\ e \notin {hits[j].idx : j \in 1..Len(hits)}
          /\ SameScore(scores[e], hits[i].score)) =>
            hits[i].idx < e

\* C13: records of equal score are returned in ascending order of their
\* store index, and a tie across the k-th place selects the records of
\* lower index (so the same store and query give the same sequence).
C13_TiesByIndex ==
    /\ SimilarDone => TieOrder(SimilarHits, SimilarScores)
    /\ SimpleDone => TieOrder(SimpleHits, SimpleScores)

MinusOne == Num(-1, 1)

\* Every returned record whose score involves a zero norm has score -1 and
\* stands after every returned record of a higher score.
ZeroNormScored(hits, Zero(_)) ==
    /\ \A i \in 1..Len(hits) :
         Zero(hits[i].idx) =>
            ~hits[i].score.nan /\ ScoreEq(hits[i].score, MinusOne)
    /\ \A i, j \in 1..Len(hits) :
         (/\ Zero(hits[i].idx)
          /\ ~hits[j].score.nan
          /\ ScoreLt(MinusOne, hits[j].score)) => j < i

\* C14: a zero-norm query or stored vector does not make a search raise;
\* the record concerned gets score -1 and sorts below every record of a
\* higher score.
C14_ZeroNorm ==
    /\ SimilarDone =>
         LET Zero(i) == NormSq(VecRows[i]) = 0
                          \/ NormSq(arg[Caller].key.q) = 0
         IN  /\ ret[Caller].st = "ok"
             /\ ZeroNormScored(SimilarHits, Zero)
    /\ SimpleDone =>
         LET Zero(i) == NormSq(vectorPkl.items[i].embedding) = 0
                          \/ NormSq(Encode(sCall.query)) = 0
         IN  /\ sRet.st = "list"
             /\ ZeroNormScored(SimpleHits, Zero)

\* The last call was search_bills with a query and a top_k it accepts.
BillsRan ==
    /\ sCall.fn = "search_bills"
    /\ sCall.query \notin EmptyQueries
    /\ sCall.top_k.kind = "int"

\* C15: search_bills returns an error value when the vector file is
\* missing, unreadable or unparsable or when the model cannot be loaded;
\* it returns the empty list only when the search ran on an available
\* store and found nothing.
C15_FailuresAreErrors ==
    BillsRan =>
        /\ sLog = <<"load_model">> => sRet.st = "error"
        /\ (vectorPkl.st # "list" /\ "read_store" \in Range(sLog)) =>
              sRet.st = "error"
        /\ (sRet.st = "list" /\ sRet.items = <<>>) => vectorPkl.st = "list"

\* C16: search_bills with an empty or whitespace-only query returns an
\* error value, whatever top_k and the reconstruct flag are, and has then
\* neither loaded the model nor read the vector store.
C16_EmptyQueryIsError ==
    (sCall.fn = "search_bills" /\ sCall.query \in EmptyQueries) =>
        /\ sRet.st = "error"
        /\ sLog = <<>>

\* C16 witness: a whitespace-only query with a top_k int() rejects, the
\* reconstruct flag set and no model loaded has returned the error value.
C16_Witness ==
    /\ sCall.fn = "search_bills"
    /\ sCall.query = "  "
    /\ sCall.top_k = BadTopK
    /\ sCall.reconstruct
    /\ MODEL = "None"
    /\ sRet = ErrorResult("query")

\* C17: a search_bills call that cannot load the model returns an error
\* value without raising and leaves _MODEL unset; a call made with _MODEL
\* unset once the model can be loaded loads it and does not fail on the
\* model.
C17_ModelFailureIsPerCall ==
    [][(/\ SearchBills
        /\ sCall'.query \notin EmptyQueries
        /\ sCall'.top_k.kind = "int"
        /\ MODEL = "None") =>
          IF modelDir # "ok"
          THEN /\ sRet'.st = "error"
               /\ sRet'.err = "model"
               /\ MODEL' = "None"
          ELSE /\ MODEL' = "loaded"
               /\ sRet'.st # "raised"
               /\ sRet'.err # "model"]_vars

\* C17 witness: after a call that failed to load the model, a later call
\* has loaded it and returned chunks.
C17_Witness ==
    /\ sFailed
    /\ MODEL = "loaded"
    /\ sCall.fn = "search_bills"
    /\ sRet.st = "list"
    /\ sRet.items # <<>>

\* The last call was search_bills with reconstruction over the chunks the
\* stubbed search returned.
ReconstructDone == sCall.fn = "search_bills" /\ sCall.reconstruct

\* The well-formed chunks of one source, in arrival order.
OwnChunks(source) ==
    LET own(c) == /\ c.metadata.kind = "dict"
                  /\ c.metadata.has_source
                  /\ c.metadata.source = source
    IN  SelectSeq(sCall.chunks, own)

KeptSources ==
    {sCall.chunks[i].metadata.source :
        i \in {j \in 1..Len(sCall.chunks) :
                 /\ sCall.chunks[j].metadata.kind = "dict"
                 /\ sCall.chunks[j].metadata.has_source}}

WordsOf(chunks) ==
    UNION {Range(IF chunks[i].text.present THEN chunks[i].text.val ELSE <<>>) :
             i \in 1..Len(chunks)}

\* C18: reconstruction returns exactly one document per distinct source
\* among the well-formed chunks, in any arrival order, and a document's
\* text and contributing_chunks come from the chunks of its source only.
C18_OneDocumentPerSource ==
    ReconstructDone =>
        /\ sRet.st = "list"
        /\ Len(sRet.items) = Cardinality(KeptSources)
        /\ {sRet.items[i].source_bill : i \in 1..Len(sRet.items)}
             = KeptSources
        /\ \A i \in 1..Len(sRet.items) :
             LET own == OwnChunks(sRet.items[i].source_bill)
             IN  /\ sRet.items[i].contributing_chunks = Len(own)
                 /\ Range(sRet.items[i].reconstructed_text) \ {" "}
                      = WordsOf(own)

\* C18 witness: chunks of two sources arrived interleaved and two
\* documents came back.
C18_Witness ==
    /\ ReconstructDone
    /\ Len(sCall.chunks) = 3
    /\ sCall.chunks[1].metadata.source = "hr1"
    /\ sCall.chunks[2].metadata.source = "hr2"
    /\ sCall.chunks[3].metadata.source = "hr1"
    /\ Len(sRet.items) = 2

Usable(chunk) == chunk.metadata.index.kind \in {"int", "digits"}

\* The texts of the chunks, taken in the order p and joined by a space.
JoinedIn(chunks, p) ==
    Join([i \in 1..Len(chunks) |->
            IF chunks[p[i]].text.present THEN chunks[p[i]].text.val
            ELSE <<>>])

\* p orders the chunks by ascending index, equal indices as they arrived.
AscendingByIndex(chunks, p) ==
    /\ \A i, j \in 1..Len(chunks) : i # j => p[i] # p[j]
    /\ \A i, j \in 1..Len(chunks) :
         i < j =>
            \/ chunks[p[i]].metadata.index.val
                 < chunks[p[j]].metadata.index.val
            \/ /\ chunks[p[i]].metadata.index.val
                    = chunks[p[j]].metadata.index.val
               /\ p[i] < p[j]

\* C19: a document's text is its chunks' texts joined by one space in
\* ascending order of the integer chunk index, equal indices in arrival
\* order, nothing removed; if any chunk of the group has no usable index,
\* the texts are joined in arrival order.
C19_TextInIndexOrder ==
    ReconstructDone =>
        \A i \in 1..Len(sRet.items) :
            LET own == OwnChunks(sRet.items[i].source_bill)
                n == Len(own)
            IN  IF \A j \in 1..n : Usable(own[j])
                THEN \E p \in [1..n -> 1..n] :
                        /\ AscendingByIndex(own, p)
                        /\ sRet.items[i].reconstructed_text = JoinedIn(own, p)
                ELSE sRet.items[i].reconstructed_text
                        = JoinedIn(own, [j \in 1..n |-> j])

\* C19 witness: three chunks of one source arrived with indices 2, 0, 1
\* and the text is chunk 0, chunk 1, chunk 2.
C19_Witness ==
    /\ ReconstructDone
    /\ Len(sCall.chunks) = 3
    /\ \A j \in 1..3 : sCall.chunks[j].metadata.source = "hr1"
    /\ \A j \in 1..3 : Usable(sCall.chunks[j])
    /\ sCall.chunks[1].metadata.index.val = 2
    /\ sCall.chunks[2].metadata.index.val = 0
    /\ sCall.chunks[3].metadata.index.val = 1
    /\ Len(sRet.items) = 1
    /\ sRet.items[1].reconstructed_text = <<"a0", " ", "a1", " ", "a2">>

\* A chunk's score, a missing or unparsable one counting as -1.
ScoreOrMinusOne(chunk) ==
    IF chunk.score.kind = "float" THEN chunk.score.val ELSE MinusOne

\* x is the largest of the chunks' scores.
LargestScore(x, chunks) ==
    /\ \E j \in 1..Len(chunks) : ScoreEq(x, ScoreOrMinusOne(chunks[j]))
    /\ \A j \in 1..Len(chunks) : ~ScoreLt(x, ScoreOrMinusOne(chunks[j]))

FirstSeen(source) ==
    Min({j \in 1..Len(sCall.chunks) :
           /\ sCall.chunks[j].metadata.kind = "dict"
           /\ sCall.chunks[j].metadata.has_source
           /\ sCall.chunks[j].metadata.source = source})

\* C21: the reconstructed documents are in descending order of max_score,
\* and documents of equal max_score are in the order in which their source
\* was first met in the input chunks.
C21_SortedByMaxScore ==
    ReconstructDone =>
        \A i, j \in 1..Len(sRet.items) :
            i < j =>
               /\ ~ScoreLt(sRet.items[i].max_score, sRet.items[j].max_score)
               /\ ScoreEq(sRet.items[i].max_score, sRet.items[j].max_score)
                    => FirstSeen(sRet.items[i].source_bill)
                         < FirstSeen(sRet.items[j].source_bill)

\* C21 example: a source met first with two lower scores and a second
\* source with a higher score came back second source first.
C21_Example ==
    /\ ReconstructDone
    /\ Len(sCall.chunks) = 3
    /\ sCall.chunks[1].metadata.source = "hr1"
    /\ sCall.chunks[2].metadata.source = "hr1"
    /\ sCall.chunks[3].metadata.source = "hr2"
    /\ Len(sRet.items) = 2
    /\ sRet.items[1].source_bill = "hr2"
    /\ ScoreLt(sRet.items[2].max_score, sRet.items[1].max_score)
    /\ ScoreLt(MinusOne, sRet.items[2].max_score)

\* C21 witness: two sources of equal max_score, the second in sort order
\* of name met first, came back in arrival order.
C21_Witness ==
    /\ ReconstructDone
    /\ Len(sRet.items) = 2
    /\ sCall.chunks[1].metadata.source = "hr2"
    /\ sRet.items[1].source_bill = "hr2"
    /\ sRet.items[2].source_bill = "hr1"
    /\ ScoreEq(sRet.items[1].max_score, sRet.items[2].max_score)
    /\ ScoreLt(MinusOne, sRet.items[1].max_score)

\* A chunk that is not a dict, has no metadata, has metadata that is not a
\* dict, or has no source.
Malformed(chunk) ==
    \/ chunk.kind = "other"
    \/ chunk.metadata.kind = "missing"
    \/ chunk.metadata.kind = "other"
    \/ ~chunk.metadata.has_source

MalformedAt == {j \in 1..Len(sCall.chunks) : Malformed(sCall.chunks[j])}

\* The number of chunks the call reported as skipped.
SkippedCount == Cardinality({i \in 1..Len(sLog) : sLog[i] = "skip_chunk"})

RECURSIVE SumContributing(_)
SumContributing(bills) ==
    IF bills = <<>> THEN 0
    ELSE Head(bills).contributing_chunks + SumContributing(Tail(bills))

\* C22: reconstruction does not raise on malformed chunks: it returns a
\* list, the malformed chunks are the ones counted as skipped, the
\* documents cover exactly the other chunks, contributing_chunks summed
\* plus the skipped count is the number of input chunks, and an input of
\* malformed chunks only gives the empty list.
C22_MalformedSkippedAndCounted ==
    ReconstructDone =>
        /\ sRet.st = "list"
        /\ SkippedCount = Cardinality(MalformedAt)
        /\ SumContributing(sRet.items)
             = Len(sCall.chunks) - Cardinality(MalformedAt)
        /\ SumContributing(sRet.items) + SkippedCount = Len(sCall.chunks)
        /\ \A i \in 1..Len(sRet.items) :
             \E j \in 1..Len(sCall.chunks) :
                /\ j \notin MalformedAt
                /\ sCall.chunks[j].metadata.source
                     = sRet.items[i].source_bill
        /\ MalformedAt = 1..Len(sCall.chunks) => sRet.items = <<>>

\* C22 witness: a non-dict element, a good chunk and a chunk without
\* metadata gave one document of one chunk, with two chunks skipped.
C22_Witness ==
    /\ ReconstructDone
    /\ Len(sCall.chunks) = 3
    /\ sCall.chunks[1] = NotAChunk
    /\ sCall.chunks[2].metadata.kind = "dict"
    /\ sCall.chunks[2].metadata.has_source
    /\ sCall.chunks[3].kind = "dict"
    /\ sCall.chunks[3].metadata.kind = "missing"
    /\ SkippedCount = 2
    /\ Len(sRet.items) = 1
    /\ sRet.items[1].contributing_chunks = 1

\* C22 test case: a chunk without a source and a chunk without metadata
\* gave the empty list.
C22_AllMalformed ==
    /\ ReconstructDone
    /\ Len(sCall.chunks) = 2
    /\ sCall.chunks[1].metadata.kind = "dict"
    /\ ~sCall.chunks[1].metadata.has_source
    /\ sCall.chunks[2].metadata.kind = "missing"
    /\ SkippedCount = 2
    /\ sRet.items = <<>>

\* The token sequence, its chunks and the stride of the loop.
SeqLen == Len(full_text_tokens)
Emitted == Len(doc_chunks_data)
StartOf(i) == doc_chunks_data[i].metadata.start_token_index
EndOf(i) == doc_chunks_data[i].metadata.end_token_index
Stride == chunk_size_tokens - overlap_tokens
ChunkingEnded == cpc \in {"done", "skipped"}

\* The window starting at offset s >= 0 holds blank tokens only.
BlankWindowAt(s) ==
    \A k \in (s + 1)..Min({s + chunk_size_tokens, SeqLen}) :
        full_text_tokens[k] = Blank

\* C23: a window that is not above the overlap is rejected, so that no
\* window is visited and nothing is emitted; and a PDF without tokens gives
\* no chunk and no error.
C23_RejectsNoProgress ==
    /\ chunk_size_tokens <= overlap_tokens =>
          windows = <<>> /\ doc_chunks_data = <<>>
    /\ (cpc # "open" /\ SeqLen = 0) =>
          cpc = "skipped" /\ doc_chunks_data = <<>>

\* C24: each emitted chunk starts exactly window - overlap after the
\* emitted chunk before it, ends at min(start + window, L), and the last
\* emitted chunk ends at L.
C24_StartsStepByStride ==
    /\ \A i \in 2..Emitted : StartOf(i) = StartOf(i - 1) + Stride
    /\ \A i \in 1..Emitted :
          EndOf(i) = Min({StartOf(i) + chunk_size_tokens, SeqLen})
    /\ (cpc = "done" /\ Emitted > 0) => EndOf(Emitted) = SeqLen

\* C24 as amended: each emitted chunk starts a positive multiple of
\* window - overlap after the emitted chunk before it, the windows between
\* them being blank (so exactly window - overlap when none was dropped);
\* it ends at min(start + window, L); and the last emitted chunk ends at L
\* unless every window after it was blank.
C24_StartsStepByWindows ==
    /\ \A i \in 2..Emitted :
          \E m \in 1..SeqLen :
             /\ StartOf(i) = StartOf(i - 1) + m * Stride
             /\ \A k \in 1..(m - 1) :
                   BlankWindowAt(StartOf(i - 1) + k * Stride)
    /\ \A i \in 1..Emitted :
          EndOf(i) = Min({StartOf(i) + chunk_size_tokens, SeqLen})
    /\ (cpc = "done" /\ Emitted > 0 /\ EndOf(Emitted) # SeqLen) =>
          /\ StartOf(Emitted) + Stride < SeqLen
          /\ \A k \in 1..SeqLen :
                StartOf(Emitted) + k * Stride < SeqLen =>
                   BlankWindowAt(StartOf(Emitted) + k * Stride)

\* C24 witness: a window between two emitted chunks was dropped, and the
\* loop has ended.
C24_Witness ==
    /\ cpc = "done"
    /\ overlap_tokens > 0
    /\ \E i \in 2..Emitted : StartOf(i) = StartOf(i - 1) + 2 * Stride
    /\ EndOf(Emitted) = SeqLen

\* C25: with overlap 0 the emitted chunks partition the token sequence:
\* the first starts at 0, each starts where the one before ends, the last
\* ends at L.
C25_Partition ==
    (overlap_tokens = 0 /\ cpc = "done") =>
        /\ Emitted > 0
        /\ StartOf(1) = 0
        /\ \A i \in 1..Emitted : StartOf(i) < EndOf(i)
        /\ \A i \in 2..Emitted : StartOf(i) = EndOf(i - 1)
        /\ EndOf(Emitted) = SeqLen

\* The token offsets no emitted chunk covers.
Uncovered ==
    {k \in 0..(SeqLen - 1) :
        ~\E i \in 1..Emitted : StartOf(i) <= k /\ k < EndOf(i)}

\* C25 as amended: with overlap 0 the emitted chunks are whole windows,
\* pairwise disjoint and in ascending order, and the tokens they do not
\* cover are exactly those of the windows that decode to blank text.
C25_PartitionButBlank ==
    (overlap_tokens = 0 /\ cpc = "done") =>
        /\ \A i \in 1..Emitted :
              /\ StartOf(i) % chunk_size_tokens = 0
              /\ StartOf(i) < EndOf(i)
              /\ EndOf(i) = Min({StartOf(i) + chunk_size_tokens, SeqLen})
        /\ \A i \in 2..Emitted : EndOf(i - 1) <= StartOf(i)
        /\ \A k \in 0..(SeqLen - 1) :
              k \in Uncovered
                <=> BlankWindowAt((k \div chunk_size_tokens)
                                    * chunk_size_tokens)

\* C25 witness: with overlap 0 a blank window in the middle was dropped and
\* the chunks around it were emitted.
C25_Witness ==
    /\ overlap_tokens = 0
    /\ cpc = "done"
    /\ Emitted = 2
    /\ StartOf(1) = 0
    /\ EndOf(1) < StartOf(2)
    /\ EndOf(2) = SeqLen
    /\ Uncovered # {}

\* The windows that were emitted, in order.
EmittedWindows ==
    LET emitted(w) == w.emitted
    IN  SelectSeq(windows, emitted)

\* C26: blank windows are dropped without consuming an index: the emitted
\* chunks carry chunk_index 0, 1, ..., N-1 in emission order however many
\* windows were dropped, and their offsets are the absolute token offsets
\* of their windows.
C26_DenseIndex ==
    /\ cpc # "failed"
    /\ Emitted = Len(EmittedWindows)
    /\ \A i \in 1..Emitted :
          /\ doc_chunks_data[i].metadata.chunk_index_doc = i - 1
          /\ StartOf(i) = EmittedWindows[i].start
          /\ EndOf(i) = Min({EmittedWindows[i].end, SeqLen})
          /\ doc_chunks_data[i].text
               = [k \in 1..(EndOf(i) - StartOf(i)) |->
                    full_text_tokens[StartOf(i) + k]]
    /\ \A i \in 1..Len(windows) :
          ~windows[i].emitted => BlankWindowAt(windows[i].start)

\* C26 witness: the first window was dropped, two chunks were emitted
\* after it with indices 0 and 1, and the loop has ended.
C26_Witness ==
    /\ cpc = "done"
    /\ Len(windows) >= 3
    /\ ~windows[1].emitted
    /\ Emitted = 2
    /\ doc_chunks_data[1].metadata.chunk_index_doc = 0
    /\ doc_chunks_data[2].metadata.chunk_index_doc = 1
    /\ StartOf(1) > 0

\* No window starts at or past the end, and nothing is emitted after a
\* window that reached the end.
WindowsInRange ==
    /\ \A i \in 1..Len(windows) :
          0 <= windows[i].start /\ windows[i].start < SeqLen
    /\ \A i, j \in 1..Len(windows) :
          (i < j /\ windows[i].end >= SeqLen) => ~windows[j].emitted
    /\ \A i \in 1..Len(windows) :
          (windows[i].emitted /\ windows[i].end >= SeqLen) =>
              i = Len(windows) /\ cpc = "done"

\* C28: for every L >= 0 and 0 <= overlap < window, dropped windows
\* included, the loop terminates, no window starts at or past L, and no
\* chunk is emitted after the chunk whose window reached the end.
C28_Terminates == []WindowsInRange /\ <>ChunkingEnded

\* C28 witness: the loop has ended after a run in which the window that
\* reached the end was dropped and further windows were visited.
C28_Witness ==
    /\ cpc = "done"
    /\ \E i \in 1..Len(windows) :
          /\ windows[i].end >= SeqLen
          /\ ~windows[i].emitted
          /\ i < Len(windows)
    /\ Emitted > 0

\* The last page starting at or before offset s, and the last page
\* starting before offset e.
PageContaining(s) ==
    page_map[Max({j \in 1..Len(page_map) :
                    page_map[j].token_start_index <= s})].page_num
LastPageBefore(e) ==
    page_map[Max({j \in 1..Len(page_map) :
                    page_map[j].token_start_index < e})].page_num

\* C30: the start page of a chunk's page label is the page whose token
\* range contains the chunk's start offset, and the end page is the last
\* page starting before the chunk's end, also for a chunk that starts
\* after the start of the last page.
C30_PageLookup ==
    \A i \in 1..Emitted :
        /\ doc_chunks_data[i].metadata.page_label.first
             = PageContaining(StartOf(i))
        /\ doc_chunks_data[i].metadata.page_label.last
             = LastPageBefore(EndOf(i))

\* The number a bill type started from, absent counting as 0.
StartValue(t) == refInit[t].reference_number

\* The number the file holds for a bill type, absent counting as 0.
StoredValue(t) == refFile.refs[t].reference_number

RefQuiet == \A p \in Tasks : refPc[p] = "idle"

\* C27: concurrent get_next_reference calls for a bill type starting from
\* v return pairwise distinct numbers, exactly v+1 .. v+n for the n calls
\* that have returned, none raises, the stored value is v+n once all have
\* returned, and this holds per bill type whatever the calls for the other
\* type do.
C27_NextReferenceAtomic ==
    /\ \A p \in Tasks : refPc[p] # "load_raised"
    /\ \A t \in BillTypes :
          LET returned == refReturned[t]
              n == Len(returned)
          IN  /\ \A i, j \in 1..n : i # j => returned[i] # returned[j]
              /\ {returned[i] : i \in 1..n}
                   = (StartValue(t) + 1)..(StartValue(t) + n)
              /\ RefQuiet =>
                   /\ refFile.st = "ok"
                   /\ StoredValue(t) = StartValue(t) + n
                   /\ n = 0 => refFile.refs[t] = refInit[t]

\* C27 witness: two calls for hr overlapped (one waited for the lock while
\* the other was inside), a call for s ran too, and all have returned.
C27_Witness ==
    /\ RefQuiet
    /\ refLeft = 0
    /\ Len(refReturned["hr"]) = 2
    /\ Len(refReturned["s"]) = 1
    /\ refInit["hr"] = LegacyRef(1)
    /\ refReturned["hr"] = <<2, 3>>
    /\ refArg["t1"] # refArg["t2"]

\* C29: when a write of the vectors or of the metadata fails during save,
\* save_batch, delete or delete_by_source_prefix, the call raises, the
\* lock is released, a read that starts afterwards returns the contents
\* from before the call, and the persisted vectors and metadata have equal
\* length.
C29_WriteFailureLeavesStore ==
    [][SaveRaised(Caller) =>
          /\ ret'[Caller].st = "raised"
          /\ lock' = NoTask
          /\ Visible' = held.vis
          /\ vecFile'.st # "torn" /\ metaFile'.st # "torn"
          /\ Len(VecRows') = Len(MetaRows')]_vars

====
